---- MODULE Spec2Model ----
(***************************************************************************)
(* Model of fpf.spec-model.v1.js (the FPF markdown parser and its          *)
(* ingestion pipeline) and of the store schema fpf.schema.v1.sql.          *)
(*                                                                         *)
(* Text is modelled character by character: a string is a sequence of     *)
(* one-character strings.  The three typographic dashes of the source are  *)
(* written "EN" (U+2013), "EM" (U+2014) and "NBH" (U+2011); each stands    *)
(* for one character.  A nullable value is a sequence of length 0 (null)   *)
(* or 1 (the value).                                                       *)
(***************************************************************************)
EXTENDS Integers, Sequences, FiniteSets, TLC

None == << >>
Some(x) == << x >>
IsSome(o) == o # << >>
The(o) == o[1]

(***************************************************************************)
(* Characters and the character classes the source's patterns use.         *)
(***************************************************************************)
NL == "\n"
UpperAZ == {"A","B","C","D","E","F","G","H","I","J","K","L","M",
            "N","O","P","Q","R","S","T","U","V","W","X","Y","Z"}
LowerAZ == {"a","b","c","d","e","f","g","h","i","j","k","l","m",
            "n","o","p","q","r","s","t","u","v","w","x","y","z"}
Digit == {"0","1","2","3","4","5","6","7","8","9"}
Space == {" ", "\t", "\n"}
Dashes == {"-", "EN", "EM"}
UniDashes == {"NBH", "EN", "EM"}
Punct == {"#", ".", ":", "*", "|", "(", ")", "-", "_", ",", "/"}
WordChar == UpperAZ \cup LowerAZ \cup Digit \cup {"_"}
AnyChar == (WordChar \cup Punct \cup UniDashes \cup Space) \ {NL}

ToUpper(c) ==
    CASE c = "a" -> "A" [] c = "b" -> "B" [] c = "c" -> "C" [] c = "d" -> "D"
      [] c = "e" -> "E" [] c = "f" -> "F" [] c = "g" -> "G" [] c = "h" -> "H"
      [] c = "i" -> "I" [] c = "j" -> "J" [] c = "k" -> "K" [] c = "l" -> "L"
      [] c = "m" -> "M" [] c = "n" -> "N" [] c = "o" -> "O" [] c = "p" -> "P"
      [] c = "q" -> "Q" [] c = "r" -> "R" [] c = "s" -> "S" [] c = "t" -> "T"
      [] c = "u" -> "U" [] c = "v" -> "V" [] c = "w" -> "W" [] c = "x" -> "X"
      [] c = "y" -> "Y" [] c = "z" -> "Z" [] OTHER -> c
ToLower(c) ==
    IF c \in UpperAZ THEN CHOOSE l \in LowerAZ : ToUpper(l) = c ELSE c
toUpperCase(s) == [k \in 1..Len(s) |-> ToUpper(s[k])]

(***************************************************************************)
(* A backtracking matcher for the pattern language the source uses.        *)
(* Match gives every way the pattern matches at position i, in the order   *)
(* a backtracking engine tries them (greedy: longest first; lazy:          *)
(* shortest first; alternation: left first); the first is the engine's     *)
(* answer.  caps holds the capture groups as <<start, end>> (end           *)
(* exclusive), <<0, 0>> when the group did not take part.                  *)
(***************************************************************************)
Cls(S) == [t |-> "set", set |-> S]
ClsI(S) == [t |-> "set", set |-> S \cup {ToLower(c) : c \in S} \cup {ToUpper(c) : c \in S}]
Cat(items) == [t |-> "seq", items |-> items]
Alt(items) == [t |-> "alt", items |-> items]
Rep(r, lo, hi) == [t |-> "rep", r |-> r, min |-> lo, max |-> hi, greedy |-> TRUE]
Lazy(r, lo, hi) == [t |-> "rep", r |-> r, min |-> lo, max |-> hi, greedy |-> FALSE]
Star(r) == Rep(r, 0, -1)
Plus(r) == Rep(r, 1, -1)
Opt(r) == Rep(r, 0, 1)
Grp(n, r) == [t |-> "grp", n |-> n, r |-> r]
Bol == [t |-> "bol"]
Eol == [t |-> "eol"]
Wb == [t |-> "wb"]
Lit(s) == Cat([k \in 1..Len(s) |-> Cls({s[k]})])
LitI(s) == Cat([k \in 1..Len(s) |-> ClsI({s[k]})])

IsWordAt(s, k) == k >= 1 /\ k <= Len(s) /\ s[k] \in WordChar

RECURSIVE Match(_, _, _, _)
RECURSIVE MatchItems(_, _, _, _, _)
RECURSIVE FlatItems(_, _, _, _, _)
RECURSIVE MatchAlt(_, _, _, _, _)
RECURSIVE MatchRep(_, _, _, _, _)
RECURSIVE FlatRep(_, _, _, _, _)

Match(re, s, i, caps) ==
    CASE re.t = "set" ->
           IF i <= Len(s) /\ s[i] \in re.set
           THEN << [pos |-> i + 1, caps |-> caps] >> ELSE << >>
      [] re.t = "bol" -> IF i = 1 THEN << [pos |-> i, caps |-> caps] >> ELSE << >>
      [] re.t = "eol" ->
           IF i = Len(s) + 1 THEN << [pos |-> i, caps |-> caps] >> ELSE << >>
      [] re.t = "wb" ->
           IF IsWordAt(s, i - 1) # IsWordAt(s, i)
           THEN << [pos |-> i, caps |-> caps] >> ELSE << >>
      [] re.t = "seq" -> MatchItems(re.items, 1, s, i, caps)
      [] re.t = "alt" -> MatchAlt(re.items, 1, s, i, caps)
      [] re.t = "rep" -> MatchRep(re, 0, s, i, caps)
      [] re.t = "grp" ->
           LET rs == Match(re.r, s, i, caps)
           IN  [k \in 1..Len(rs) |->
                  [pos |-> rs[k].pos,
                   caps |-> [rs[k].caps EXCEPT ![re.n] = <<i, rs[k].pos>>]]]

MatchItems(items, k, s, i, caps) ==
    IF k > Len(items) THEN << [pos |-> i, caps |-> caps] >>
    ELSE FlatItems(Match(items[k], s, i, caps), 1, items, k + 1, s)

FlatItems(rs, n, items, k, s) ==
    IF n > Len(rs) THEN << >>
    ELSE MatchItems(items, k, s, rs[n].pos, rs[n].caps)
           \o FlatItems(rs, n + 1, items, k, s)

MatchAlt(items, k, s, i, caps) ==
    IF k > Len(items) THEN << >>
    ELSE Match(items[k], s, i, caps) \o MatchAlt(items, k + 1, s, i, caps)

MatchRep(re, c, s, i, caps) ==
    LET once == SelectSeq(Match(re.r, s, i, caps), LAMBDA r : r.pos > i)
        more == IF re.max < 0 \/ c < re.max
                THEN FlatRep(once, 1, re, c + 1, s) ELSE << >>
        stop == IF c >= re.min THEN << [pos |-> i, caps |-> caps] >> ELSE << >>
    IN  IF re.greedy THEN more \o stop ELSE stop \o more

FlatRep(rs, n, re, c, s) ==
    IF n > Len(rs) THEN << >>
    ELSE MatchRep(re, c, s, rs[n].pos, rs[n].caps) \o FlatRep(rs, n + 1, re, c, s)

NoCaps(n) == [g \in 1..n |-> <<0, 0>>]

(* String.prototype.match / RegExp.exec without the g flag: the leftmost     *)
(* start at which the pattern matches, from position `from` on.             *)
RECURSIVE Exec(_, _, _, _)
ExecAt(re, s, from, n, rs) ==
    IF rs # << >>
    THEN Some([start |-> from, end |-> rs[1].pos, caps |-> rs[1].caps])
    ELSE Exec(re, s, from + 1, n)
Exec(re, s, from, n) ==
    IF from > Len(s) + 1 THEN None
    ELSE ExecAt(re, s, from, n, Match(re, s, from, NoCaps(n)))

(* String.prototype.matchAll with the g flag: successive matches.           *)
RECURSIVE MatchAll(_, _, _, _)
MatchAllAfter(re, s, n, m) ==
    IF m = None THEN << >>
    ELSE << The(m) >> \o
         MatchAll(re, s, IF The(m).end = The(m).start
                         THEN The(m).end + 1 ELSE The(m).end, n)
MatchAll(re, s, from, n) == MatchAllAfter(re, s, n, Exec(re, s, from, n))

Sub(s, a, b) == SubSeq(s, a, b - 1)
Group(s, m, g) == Sub(s, m.caps[g][1], m.caps[g][2])

(***************************************************************************)
(* String helpers of the JavaScript runtime used by the source.            *)
(***************************************************************************)
AllChars == AnyChar \cup {NL}

RECURSIVE TrimLeft(_)
TrimLeft(s) == IF s # << >> /\ Head(s) \in Space THEN TrimLeft(Tail(s)) ELSE s
RECURSIVE TrimRight(_)
TrimRight(s) ==
    IF s # << >> /\ s[Len(s)] \in Space THEN TrimRight(SubSeq(s, 1, Len(s) - 1)) ELSE s
trim(s) == TrimRight(TrimLeft(s))

(* s.replace(re, '') without the g flag: the first match is removed.        *)
RemoveMatch(s, m) ==
    IF m = None THEN s
    ELSE SubSeq(s, 1, The(m).start - 1) \o SubSeq(s, The(m).end, Len(s))
RemoveFirst(re, s) == RemoveMatch(s, Exec(re, s, 1, 0))

(* s.includes(sub)                                                          *)
includes(s, sub) ==
    \E k \in 1..(Len(s) - Len(sub) + 1) : SubSeq(s, k, k + Len(sub) - 1) = sub

(* s.slice(a, b) for 0 <= a <= b <= s.length (0-based, b exclusive).        *)
slice(s, a, b) == SubSeq(s, a + 1, b)

Max(a, b) == IF a >= b THEN a ELSE b
Min(a, b) == IF a <= b THEN a ELSE b

(* md.split('\n')                                                           *)
RECURSIVE split(_)
split(md) ==
    IF \A k \in 1..Len(md) : md[k] # NL THEN << md >>
    ELSE LET k == CHOOSE j \in 1..Len(md) :
                     md[j] = NL /\ \A h \in 1..(j - 1) : md[h] # NL
         IN  << SubSeq(md, 1, k - 1) >> \o split(SubSeq(md, k + 1, Len(md)))

(* lines.join('\n')                                                         *)
RECURSIVE join(_)
join(ls) ==
    IF ls = << >> THEN << >>
    ELSE IF Len(ls) = 1 THEN ls[1]
    ELSE ls[1] \o << NL >> \o join(Tail(ls))

(* sha256: the digest is modelled as an injective tag of the text.          *)
sha256(str) == [sha256 |-> str]

(***************************************************************************)
(* parseHeading                                                            *)
(***************************************************************************)
StructuralId ==
    Cat(<< Cls(UpperAZ), Cls({"."}), Plus(Cls(Digit \cup {"."})),
           Opt(Cat(<< Cls({":"}), Plus(Cls(Digit \cup {"."})) >>)) >>)
DashSep == Cat(<< Star(Cls(Space)), Cls(Dashes), Star(Cls(Space)) >>)

sectionMatchRe ==
    Cat(<< Bol, Grp(1, StructuralId), DashSep, Grp(2, Plus(Cls(AnyChar))), Eol >>)
partMatchRe ==
    Cat(<< Bol, LitI(<<"P","a","r","t">>), Plus(Cls(Space)), Grp(1, ClsI(UpperAZ)),
           DashSep, Grp(2, Plus(Cls(AnyChar))), Eol >>)
clusterMatchRe ==
    Cat(<< Bol, Rep(Cls({"*"}), 0, 2), LitI(<<"C","l","u","s","t","e","r">>),
           Plus(Cls(Space)),
           Grp(1, Cat(<< ClsI(UpperAZ),
                         Opt(Cat(<< Cls({"."}), Plus(ClsI({"I","V","X"})) >>)) >>)),
           DashSep, Grp(2, Lazy(Cls(AnyChar), 1, -1)), Rep(Cls({"*"}), 0, 2), Eol >>)
bareRefMatchRe == Cat(<< Bol, Grp(1, StructuralId), Star(Cls(Space)), Eol >>)
headingMarkersRe == Cat(<< Bol, Plus(Cls({"#"})), Star(Cls(Space)) >>)

(* The five patterns of parseHeading in their order, on the heading text    *)
(* without its markers.                                                     *)
HeadingParts(text, sectionMatch, partMatch, clusterMatch, bareRefMatch) ==
    IF sectionMatch # None
    THEN [ref |-> Some(Group(text, The(sectionMatch), 1)),
          title |-> trim(Group(text, The(sectionMatch), 2))]
    ELSE IF partMatch # None
    THEN [ref |-> Some(<<"P","a","r","t","-">>
                         \o toUpperCase(Group(text, The(partMatch), 1))),
          title |-> trim(Group(text, The(partMatch), 2))]
    ELSE IF clusterMatch # None
    THEN [ref |-> Some(<<"C","l","u","s","t","e","r","-">>
                         \o Group(text, The(clusterMatch), 1)),
          title |-> trim(Group(text, The(clusterMatch), 2))]
    ELSE IF bareRefMatch # None
    THEN [ref |-> Some(Group(text, The(bareRefMatch), 1)),
          title |-> Group(text, The(bareRefMatch), 1)]
    ELSE [ref |-> None, title |-> text]

HeadingText(text) ==
    HeadingParts(text, Exec(sectionMatchRe, text, 1, 2), Exec(partMatchRe, text, 1, 2),
                 Exec(clusterMatchRe, text, 1, 2), Exec(bareRefMatchRe, text, 1, 1))

parseHeading(heading) == HeadingText(trim(RemoveFirst(headingMarkersRe, heading)))

(* The keywords of the source, spelled out as character sequences.         *)
MUST_NOT == <<"M","U","S","T"," ","N","O","T">>
MUST == <<"M","U","S","T">>
SHALL_NOT == <<"S","H","A","L","L"," ","N","O","T">>
SHALL == <<"S","H","A","L","L">>
SHOULD_NOT == <<"S","H","O","U","L","D"," ","N","O","T">>
SHOULD == <<"S","H","O","U","L","D">>
MAY == <<"M","A","Y">>
BUILDS_ON == <<"B","u","i","l","d","s"," ","o","n">>
PREREQUISITE == <<"P","r","e","r","e","q","u","i","s","i","t","e">>
COORDINATES == <<"C","o","o","r","d","i","n","a","t","e","s">>
CONSTRAINS == <<"C","o","n","s","t","r","a","i","n","s">>
USED_BY == <<"U","s","e","d"," ","b","y">>
REFINES == <<"R","e","f","i","n","e","s">>
INFORMS == <<"I","n","f","o","r","m","s">>
MonthNames ==
    << <<"J","a","n","u","a","r","y">>,
       <<"F","e","b","r","u","a","r","y">>,
       <<"M","a","r","c","h">>,
       <<"A","p","r","i","l">>,
       <<"M","a","y">>,
       <<"J","u","n","e">>,
       <<"J","u","l","y">>,
       <<"A","u","g","u","s","t">>,
       <<"S","e","p","t","e","m","b","e","r">>,
       <<"O","c","t","o","b","e","r">>,
       <<"N","o","v","e","m","b","e","r">>,
       <<"D","e","c","e","m","b","e","r">> >>

(***************************************************************************)
(* extractClause                                                           *)
(***************************************************************************)
(* A variant: the em-dash is missing from the class.                        *)
normalizeDashesNoEm(line) ==
    [k \in 1..Len(line) |-> IF line[k] \in UniDashes \ {"EM"} THEN "-" ELSE line[k]]
(* line.replace(/[NBH EN EM]/g, '-')                                        *)
normalizeDashes(line) ==
    [k \in 1..Len(line) |-> IF line[k] \in UniDashes THEN "-" ELSE line[k]]

CodeChars == UpperAZ \cup Digit \cup {"."}
ccMatchRe ==
    Cat(<< Opt(Cls({"*"})), Opt(Cls({"*"})), LitI(<<"C","C","-">>),
           Grp(1, Cat(<< ClsI(UpperAZ), Star(ClsI(CodeChars)), Cls({"-"}),
                         Plus(Cls(Digit)) >>)),
           Opt(Cat(<< Star(Cls(Space)), Cls({"("}), Star(Cls(AllChars \ {")"})),
                      Cls({")"}) >>)),
           Opt(Cls({"*"})), Opt(Cls({"*"})), Opt(Cls({"."})),
           Star(Cls(Space)), Opt(Cls({"|"})), Star(Cls(Space)),
           Grp(2, Plus(Cls(AnyChar))) >>)
leadingPipeRe == Cat(<< Bol, Opt(Cls({"|"})), Star(Cls(Space)) >>)
trailingPipeRe == Cat(<< Star(Cls(Space)), Opt(Cls({"|"})), Star(Cls(Space)), Eol >>)
(* A variant: each one-word keyword is tried before its negated form.       *)
modalityRePositiveFirst ==
    Cat(<< Wb,
           Grp(1, Alt(<< Lit(MUST), Lit(MUST_NOT), Lit(SHALL), Lit(SHALL_NOT),
                         Lit(SHOULD), Lit(SHOULD_NOT), Lit(MAY) >>)),
           Wb >>)
(* /\b(MUST NOT|MUST|SHALL NOT|SHALL|SHOULD NOT|SHOULD|MAY)\b/              *)
modalityRe ==
    Cat(<< Wb,
           Grp(1, Alt(<< Lit(MUST_NOT), Lit(MUST), Lit(SHALL_NOT), Lit(SHALL),
                         Lit(SHOULD_NOT), Lit(SHOULD), Lit(MAY) >>)),
           Wb >>)

(* The clause record, from the code and the cleaned-up text.                *)
ClauseRecord(code, text, modalityMatch, lineNum) ==
    [code |-> code, text |-> text,
     modality |-> IF modalityMatch # None
                  THEN Some(Group(text, The(modalityMatch), 1)) ELSE None,
     lineNum |-> lineNum]

ClauseText(code, text, lineNum) ==
    ClauseRecord(code, text, Exec(modalityRe, text, 1, 1), lineNum)

ClauseMatch(normalized, ccMatch, lineNum) ==
    IF ccMatch # None
    THEN Some(ClauseText(<<"C","C","-">> \o Group(normalized, The(ccMatch), 1),
                         trim(RemoveFirst(trailingPipeRe,
                                RemoveFirst(leadingPipeRe,
                                  trim(Group(normalized, The(ccMatch), 2))))),
                         lineNum))
    ELSE None

extractClause(line, lineNum) ==
    ClauseMatch(normalizeDashes(line), Exec(ccMatchRe, normalizeDashes(line), 1, 2),
                lineNum)

(***************************************************************************)
(* extractXrefs                                                            *)
(***************************************************************************)
ccPattern ==
    Cat(<< LitI(<<"C","C","-">>), ClsI(UpperAZ), Star(ClsI(CodeChars)),
           Cls({"-"}), Plus(Cls(Digit)) >>)
DottedDigits == Cat(<< Plus(Cls(Digit)), Star(Cat(<< Cls({"."}), Plus(Cls(Digit)) >>)) >>)
sectionPattern ==
    Cat(<< Wb, Grp(1, Cls(UpperAZ)), Cls({"."}),
           Grp(2, Cat(<< DottedDigits, Opt(Cat(<< Cls({":"}), DottedDigits >>)) >>)),
           Wb >>)
partPattern ==
    Cat(<< Wb, LitI(<<"P","a","r","t">>), Plus(Cls(Space)), Grp(1, ClsI(UpperAZ)), Wb >>)

(* One pass of extractXrefs: the candidates cs of one pattern (each with    *)
(* its reference and its entry), in match order, added to                   *)
(* acc = [refs, seen] unless their reference was already seen.              *)
RECURSIVE XrefPass(_, _, _)
XrefPass(acc, cs, k) ==
    IF k > Len(cs) THEN acc
    ELSE IF cs[k].targetRef \in acc.seen THEN XrefPass(acc, cs, k + 1)
    ELSE XrefPass([refs |-> Append(acc.refs, cs[k]),
                   seen |-> acc.seen \cup {cs[k].targetRef}], cs, k + 1)

(* The three passes of extractXrefs over the matches of its patterns.       *)
XrefPasses(text, normalized, ccMatches, sectionMatches, partMatches) ==
    LET Matched(m) == Sub(normalized, m.start, m.end)
        Index(m) == m.start - 1
        Context30(m) ==
            trim(slice(text, Max(0, Index(m) - 30),
                       Min(Len(text), Index(m) + Len(Matched(m)) + 30)))
        Context20(m) ==
            trim(slice(text, Max(0, Index(m) - 20), Min(Len(text), Index(m) + 30)))
    IN  XrefPass(
          XrefPass(
            XrefPass([refs |-> << >>, seen |-> {}],
                     [k \in 1..Len(ccMatches) |->
                        [targetRef |-> toUpperCase(Matched(ccMatches[k])),
                         targetType |-> "clause",
                         context |-> Context30(ccMatches[k])]], 1),
            [k \in 1..Len(sectionMatches) |->
               [targetRef |-> Matched(sectionMatches[k]),
                targetType |-> "section",
                context |-> Context30(sectionMatches[k])]], 1),
          [k \in 1..Len(partMatches) |->
             [targetRef |-> <<"P","a","r","t","-">>
                \o toUpperCase(Group(normalized, partMatches[k], 1)),
              targetType |-> "section",
              context |-> Context20(partMatches[k])]], 1).refs

extractXrefs(text, lineNum) ==
    XrefPasses(text, normalizeDashes(text),
               MatchAll(ccPattern, normalizeDashes(text), 1, 0),
               MatchAll(sectionPattern, normalizeDashes(text), 1, 2),
               MatchAll(partPattern, normalizeDashes(text), 1, 1))

(* The condition under which parseFpfSpecMarkdown hands a line to            *)
(* extractXrefs.                                                            *)
sectionRefShapeRe == Cat(<< Wb, Cls(UpperAZ), Cls({"."}), Plus(Cls(Digit)) >>)
RelationKeywords ==
    { BUILDS_ON, PREREQUISITE, COORDINATES, CONSTRAINS, USED_BY, REFINES, INFORMS }
xrefGate(line) ==
    /\ includes(line, <<".">>)
    /\ \/ \E kw \in RelationKeywords : includes(line, kw)
       \/ Exec(sectionRefShapeRe, line, 1, 0) # None

(***************************************************************************)
(* extractVersion                                                          *)
(***************************************************************************)
dateMatchRe ==
    Cat(<< Wb, Grp(1, Alt([k \in 1..Len(MonthNames) |-> LitI(MonthNames[k])])),
           Plus(Cls(Space)), Grp(2, Rep(Cls(Digit), 4, 4)), Wb >>)
versionMatchRe ==
    Cat(<< Wb, Alt(<< LitI(<<"V","e","r","s","i","o","n">>), LitI(<<"v">>) >>),
           Star(Cls(Space)),
           Grp(1, Cat(<< Plus(Cls(Digit)),
                         Plus(Cat(<< Cls({"."}), Plus(Cls(Digit)) >>)) >>)) >>)

VersionOf(md, dateMatch, versionMatch) ==
    IF dateMatch # None
    THEN Some(Group(md, The(dateMatch), 1) \o <<" ">> \o Group(md, The(dateMatch), 2))
    ELSE IF versionMatch # None THEN Some(Group(md, The(versionMatch), 1))
    ELSE None

extractVersion(md) ==
    VersionOf(md, Exec(dateMatchRe, md, 1, 2), Exec(versionMatchRe, md, 1, 1))

(***************************************************************************)
(* The lines the model feeds to the parser.                                *)
(***************************************************************************)
L_Blank == << >>
L_Text == <<"t">>
L_H1 == <<"#", " ", "T">>
L_H2 == <<"#", "#", " ", "A", ".", "1", " ", "-", " ", "O">>
L_H3 == <<"#", "#", "#", " ", "A", ".", "1", ".", "1">>
L_NoSpace == <<"#", "x">>
L_Clause == <<"C", "C", "-", "A", ".", "1", "-", "1", " ", "M", "A", "Y", " ", "x">>
L_Xref == <<"R", "e", "f", "i", "n", "e", "s", " ", "B", ".", "2">>
L_ClauseOnly == <<"C", "C", "-", "A", "-", "1", " ", "M", "A", "Y", " ", "x">>
L_Date == <<"M", "a", "y", " ", "2", "0", "2", "5">>
L_Ver == <<"v", "1", ".", "2">>
(* The lines every sequence of which is parsed.                             *)
Alphabet == { L_Blank, L_Text, L_H1, L_H2, L_H3, L_NoSpace, L_Clause, L_Xref }
KnownLines == Alphabet \cup { L_ClauseOnly, L_Date, L_Ver }


(***************************************************************************)
(* parseFpfSpecMarkdown                                                    *)
(***************************************************************************)
(* `${n}` for a number n >= 0                                               *)
DigitChar(d) ==
    CASE d = 0 -> "0" [] d = 1 -> "1" [] d = 2 -> "2" [] d = 3 -> "3" [] d = 4 -> "4"
      [] d = 5 -> "5" [] d = 6 -> "6" [] d = 7 -> "7" [] d = 8 -> "8" [] d = 9 -> "9"
RECURSIVE Decimal(_)
Decimal(n) == IF n < 10 THEN << DigitChar(n) >> ELSE Decimal(n \div 10) \o << DigitChar(n % 10) >>

(* A variant: only one or two "#" make a heading.                            *)
headingMatchReShallow ==
    Cat(<< Bol, Grp(1, Rep(Cls({"#"}), 1, 2)), Plus(Cls(Space)),
           Grp(2, Plus(Cls(AnyChar))), Eol >>)
(* /^(#{1,6})\s+(.+)$/                                                      *)
headingMatchRe ==
    Cat(<< Bol, Grp(1, Rep(Cls({"#"}), 1, 6)), Plus(Cls(Space)),
           Grp(2, Plus(Cls(AnyChar))), Eol >>)

(* The document record built before the line loop.                          *)
ParseDoc(md, options) ==
    [ref |-> options.doc_ref,
     title |-> options.title,
     version |-> IF IsSome(options.version) /\ The(options.version) # << >>
                 THEN options.version ELSE extractVersion(md),
     raw_hash |-> sha256(md),
     meta_json |-> None]

(* The parser's local variables before the first line.  currentSection is   *)
(* the index in sections of the section object it refers to (0: null).      *)
ParseStart(md, options) ==
    [doc_ref |-> options.doc_ref,
     lines |-> split(md),
     doc |-> ParseDoc(md, options),
     sections |-> << >>, clauses |-> << >>, xrefs |-> << >>,
     currentSection |-> 0,
     sectionStack |-> << >>,
     sectionOrd |-> 0,
     sectionContent |-> << >>,
     sectionStartLine |-> 0,
     i |-> 0]

(* currentSection.text = ...; currentSection.line_end = ...: the object is  *)
(* the one held in sections.                                                *)
SaveSection(st, lineEnd) ==
    IF st.currentSection # 0 /\ Len(st.sectionContent) > 0
    THEN [st.sections EXCEPT
            ![st.currentSection].text = Some(trim(join(st.sectionContent))),
            ![st.currentSection].line_end = Some(lineEnd)]
    ELSE st.sections

RECURSIVE PopStack(_, _)
RECURSIVE PopStackDeeper(_, _)
(* A variant: an "if" in place of the "while", one entry popped at most.    *)
PopStackOnce(stack, level) ==
    IF Len(stack) > 0 /\ stack[Len(stack)].level >= level
    THEN SubSeq(stack, 1, Len(stack) - 1)
    ELSE stack
(* A variant: only strictly deeper entries are popped.                      *)
PopStackDeeper(stack, level) ==
    IF Len(stack) > 0 /\ stack[Len(stack)].level > level
    THEN PopStackDeeper(SubSeq(stack, 1, Len(stack) - 1), level)
    ELSE stack
(* while (stack.length > 0 && top.level >= level) stack.pop()               *)
PopStack(stack, level) ==
    IF Len(stack) > 0 /\ stack[Len(stack)].level >= level
    THEN PopStack(SubSeq(stack, 1, Len(stack) - 1), level)
    ELSE stack

(* A variant: the ordinal of the outermost open section.                    *)
CurrentOrdOutermost(st) ==
    IF Len(st.sectionStack) > 0 THEN Some(st.sectionStack[1].ord) ELSE None
(* currentSection ? currentSection.ord : null                               *)
CurrentOrd(st) ==
    IF st.currentSection # 0 THEN Some(st.sections[st.currentSection].ord) ELSE None

(* What the loop body computes from the text of one line alone: the        *)
(* heading match with parseHeading's answer, or else the clause and the     *)
(* gated cross-references.                                                  *)
FactsFrom(line, headingMatch) ==
    IF headingMatch # None
    THEN [heading |-> TRUE,
          level |-> Len(Group(line, The(headingMatch), 1)),
          parsed |-> parseHeading(line),
          clause |-> None, xrefs |-> << >>]
    ELSE [heading |-> FALSE, level |-> 0,
          parsed |-> [ref |-> None, title |-> << >>],
          clause |-> extractClause(line, 0),
          xrefs |-> IF xrefGate(line) THEN extractXrefs(line, 0) ELSE << >>]
LineFacts(line) == FactsFrom(line, Exec(headingMatchRe, line, 1, 2))

(* LineFacts, computed once for the lines the model feeds to the parser.    *)
KnownLineFacts == [l \in KnownLines |-> LineFacts(l)] @@ << >>
FactsIn(known, line) == IF line \in DOMAIN known THEN known[line] ELSE LineFacts(line)
FactsOf(line) == FactsIn(KnownLineFacts, line)

(* A variant: the ordinal is not incremented.                               *)
NextOrdStuck(sectionOrd) == sectionOrd
(* sectionOrd++                                                             *)
NextOrd(sectionOrd) == sectionOrd + 1

(* The loop body for a heading line: save the previous section, pop the     *)
(* stack, assign the next ordinal, create the section and push it.          *)
HeadingLine(st, lineNum, level, parsed, saved, stack) ==
    LET effectiveRef ==
            IF IsSome(parsed.ref) /\ The(parsed.ref) # << >>
            THEN The(parsed.ref)
            ELSE st.doc_ref \o <<":", "L">> \o Decimal(lineNum)
        parentId == IF Len(stack) > 0 THEN Some(stack[Len(stack)].ord) ELSE None
        ord == NextOrd(st.sectionOrd)
        section == [ref |-> effectiveRef, title |-> parsed.title,
                    level |-> level, ord |-> ord, parent_ord |-> parentId,
                    text |-> None, line_start |-> lineNum, line_end |-> None]
    IN  [st EXCEPT
           !.sections = Append(saved, section),
           !.currentSection = Len(saved) + 1,
           !.sectionStack = Append(stack, [level |-> level, ord |-> ord]),
           !.sectionOrd = ord,
           !.sectionContent = << >>,
           !.sectionStartLine = lineNum,
           !.i = st.i + 1]

(* The loop body for any other line: collect it as content, extract its     *)
(* clause and its gated cross-references.                                   *)
ContentLine(st, line, lineNum, clause, lineXrefs, currentOrd) ==
    [st EXCEPT
       !.sectionContent = Append(st.sectionContent, line),
       !.clauses =
           IF clause # None
           THEN Append(st.clauses,
                       [code |-> The(clause).code,
                        text |-> The(clause).text,
                        modality |-> The(clause).modality,
                        lineNum |-> lineNum,
                        section_ord |-> currentOrd])
           ELSE st.clauses,
       !.xrefs = st.xrefs \o
           [k \in 1..Len(lineXrefs) |->
              [source_ord |-> currentOrd,
               source_line |-> lineNum,
               targetRef |-> lineXrefs[k].targetRef,
               targetType |-> lineXrefs[k].targetType,
               context |-> lineXrefs[k].context]],
       !.i = st.i + 1]

LineBody(st, line, lineNum, facts) ==
    IF facts.heading
    THEN HeadingLine(st, lineNum, facts.level, facts.parsed,
                     SaveSection(st, lineNum - 1),
                     PopStack(st.sectionStack, facts.level))
    ELSE ContentLine(st, line, lineNum, facts.clause, facts.xrefs, CurrentOrd(st))

(* One iteration of the line loop, for line number st.i + 1.                *)
ParseLine(st) == LineBody(st, st.lines[st.i + 1], st.i + 1, FactsOf(st.lines[st.i + 1]))

(* A variant: the final section is closed one line past the input.         *)
ParseClosePastEnd(st) ==
    [doc |-> st.doc,
     sections |-> SaveSection(st, Len(st.lines) + 1),
     clauses |-> st.clauses,
     xrefs |-> st.xrefs]
(* "Close final section" and the returned value.                            *)
ParseClose(st) ==
    [doc |-> st.doc,
     sections |-> SaveSection(st, Len(st.lines)),
     clauses |-> st.clauses,
     xrefs |-> st.xrefs]

RECURSIVE ParseLoop(_)
ParseLoop(st) == IF st.i < Len(st.lines) THEN ParseLoop(ParseLine(st)) ELSE st

parseFpfSpecMarkdown(md, options) == ParseClose(ParseLoop(ParseStart(md, options)))

(***************************************************************************)
(* State.                                                                  *)
(*                                                                         *)
(* The parser run on its own: p_md and p_options are the arguments of a    *)
(* parseFpfSpecMarkdown call, p_st its local variables, p_result the       *)
(* returned value.                                                         *)
(*                                                                         *)
(* The store: the four ingestion tables of fpf.schema.v1.sql as sets of    *)
(* rows, and lastId, the AUTOINCREMENT counter of each table.              *)
(*                                                                         *)
(* The ingestFpfSpecMarkdown calls in progress, one per caller in Procs:   *)
(* pc is the statement the call is about to issue (every `await query` is  *)
(* one step, and calls interleave between their steps), args the options   *)
(* of the call, parsed/docId/ordToId/idx its local variables, result the   *)
(* resolved summary.                                                       *)
(*                                                                         *)
(* History, read by the properties only: committed is the content of each  *)
(* document as the last completed call for it left it (with that call's    *)
(* text); pre and prior are the store and the committed content of the     *)
(* call's document as they were when the call started; calls is the        *)
(* number of calls started and last the caller of the latest of them.      *)
(***************************************************************************)
VARIABLES p_md, p_options, p_st, p_result
VARIABLES fpf_doc, fpf_section, fpf_clause, fpf_xref, lastId
VARIABLES pc, args, parsed, docId, ordToId, idx, result
VARIABLES pre, prior, committed, calls, last
VARIABLES fpf_episteme_card, lastCardId
VARIABLES u_pc, u_card, u_existing, u_result
VARIABLES u_pre, u_calls, u_done
VARIABLES sqlite_master, fts5, fts_index
VARIABLES m_pc, m_statements, m_i, m_errors, m_ftsEnabled, m_result
VARIABLES m_failures, m_runs, m_done
VARIABLES r_pc, r_results, r_attempted, r_succeeded, r_done, r_calls

parseVars == << p_md, p_options, p_st, p_result >>
storeVars == << fpf_doc, fpf_section, fpf_clause, fpf_xref, lastId >>
callVars == << pc, args, parsed, docId, ordToId, idx, result >>
histVars == << pre, prior, committed, calls, last >>
ingestVars == << storeVars, callVars, histVars >>
cardVars == << fpf_episteme_card, lastCardId, u_pc, u_card, u_existing, u_result,
               u_pre, u_calls, u_done >>
schemaVars == << sqlite_master, fts5, fts_index >>
migrateVars == << m_pc, m_statements, m_i, m_errors, m_ftsEnabled, m_result,
                  m_failures, m_runs, m_done >>
rebuildVars == << r_pc, r_results, r_attempted, r_succeeded, r_done, r_calls >>
indexVars == << schemaVars, migrateVars, rebuildVars >>
sideVars == << cardVars, indexVars >>
vars == << parseVars, ingestVars, sideVars >>

MaxLines == 4
MaxCalls == 3
MaxInterleaved == 2
MaxCardCalls == 3
MaxMigrations == 2
MaxRebuilds == 2
Procs == {1, 2}

DocRefX == <<"X">>
DocRefY == <<"Y">>
DocRefs == { DocRefX, DocRefY }
TitleOld == <<"O", "l", "d">>
TitleNew == <<"N", "e", "w">>

(***************************************************************************)
(* Inputs of the parser run on its own: every text of 1..MaxLines lines of *)
(* Alphabet with the version supplied by the caller, and a few texts with  *)
(* no version supplied, for which the parser runs extractVersion.          *)
(***************************************************************************)
RECURSIVE LineSeqs(_)
LineSeqs(n) ==
    IF n = 0 THEN { << >> }
    ELSE LET shorter == LineSeqs(n - 1)
         IN  shorter \cup { Append(ls, l) : ls \in { x \in shorter : Len(x) = n - 1 },
                                            l \in Alphabet }
ParseTexts == { join(ls) : ls \in LineSeqs(MaxLines) \ { << >> } }
VersionTexts ==
    { join(<< L_Blank >>), join(<< L_H1, L_Date >>), join(<< L_Ver, L_Date >>),
      join(<< L_H2, L_Ver >>), join(<< L_H1, L_Text >>) }
ParseCases ==
    { [md |-> m, options |-> [doc_ref |-> DocRefX, title |-> TitleOld,
                              version |-> Some(<<"4">>)]] : m \in ParseTexts }
    \cup
    { [md |-> m, options |-> [doc_ref |-> DocRefX, title |-> TitleOld,
                              version |-> None]] : m \in VersionTexts }

(* Clause lines whose marker is written with each dash in each of its two  *)
(* places, and the texts of two such lines.                                 *)
MarkerDashes == {"-"} \cup UniDashes
DashLine(d1, d2) ==
    <<"C", "C", d1, "A", ".", "1", d2, "1", " ", "M", "A", "Y", " ", "x">>
DashLines == { DashLine(d1, d2) : d1, d2 \in MarkerDashes }
DashTexts == { join(<< a, b >>) : a, b \in DashLines }
(* Clause lines for the modality: a negated keyword first, last, after      *)
(* another keyword, and as the beginning of a longer word.                  *)
Marked(text) == <<"C", "C", "-", "A", ".", "1", "-", "1", " ">> \o text
ModalityTexts ==
    { MUST_NOT \o <<" ", "x">>,
      <<"x", " ">> \o SHALL_NOT,
      SHOULD_NOT \o <<" ", "x">>,
      MAY \o <<" ", "x", " ">> \o MUST_NOT \o <<" ", "y">>,
      MUST \o <<" ", "x", " ">> \o MUST_NOT \o <<" ", "y">>,
      MUST_NOT \o <<"E">>,
      MUST \o <<" ", "x">>,
      <<"x">> }
ModalityLines == { Marked(t) : t \in ModalityTexts }
(* Clause lines whose marker is written in lower case, wholly or in part.   *)
CaseLines ==
    { <<"c", "c", "-", "a", ".", "1", "-", "1", " ", "M", "A", "Y", " ", "x">>,
      <<"C", "C", "-", "a", ".", "1", "-", "1", " ", "M", "A", "Y", " ", "x">>,
      <<"c", "C", "-", "A", ".", "b", "-", "1", " ", "M", "A", "Y", " ", "x">> }
(* Lines for the cross-reference gate: with and without a relation         *)
(* keyword, a ".", a structural id, a part.                                 *)
G_KeywordPart == <<"R", "e", "f", "i", "n", "e", "s", " ", "P", "a", "r", "t", " ", "B">>
G_KeywordPartDot == <<"R", "e", "f", "i", "n", "e", "s", " ", "P", "a", "r", "t", " ", "B", ".">>
G_PartDot == <<"S", "e", "e", " ", "P", "a", "r", "t", " ", "B", ".">>
G_Id == <<"S", "e", "e", " ", "B", ".", "2">>
G_KeywordClause == <<"U", "s", "e", "d", " ", "b", "y", " ", "C", "C", "-", "A", ".", "1", "-", "1">>
G_KeywordIdDot == <<"I", "n", "f", "o", "r", "m", "s", " ", "B", ".", "2", ".">>
G_Keyword == <<"I", "n", "f", "o", "r", "m", "s", " ", "x">>
G_IdInWord == <<"S", "e", "e", " ", "A", ".", "1", "x">>
GateLines ==
    { G_KeywordPart, G_KeywordPartDot, G_PartDot, G_Id, G_KeywordClause,
      G_KeywordIdDot, G_Keyword, G_IdInWord, L_Xref, L_Text }
LineTexts == DashTexts \cup ModalityLines \cup CaseLines \cup GateLines
LineCases ==
    { [md |-> m, options |-> [doc_ref |-> DocRefX, title |-> TitleOld,
                              version |-> Some(<<"4">>)]] : m \in LineTexts }

(***************************************************************************)
(* Inputs of ingestion: two texts, each ingested under either reference.   *)
(***************************************************************************)
TextOld == join(<< L_H2, L_H3, L_ClauseOnly, L_ClauseOnly >>)
TextNew == join(<< L_H2, L_Xref, L_Ver >>)
Inputs ==
    { [doc_ref |-> r, title |-> TitleOld, md |-> TextOld, version |-> None] :
        r \in DocRefs }
    \cup
    { [doc_ref |-> r, title |-> TitleNew, md |-> TextNew, version |-> None] :
        r \in DocRefs }

(***************************************************************************)
(* The store: the constraints of fpf.schema.v1.sql.  Foreign keys are      *)
(* declared by the schema and not enforced by the connection (SQLite's     *)
(* default, which neither the module nor its tests change).  The NOT NULL  *)
(* columns are given a value by every insert of the inputs below.          *)
(***************************************************************************)
(* A variant: a store that does not enforce the constraint on ref.          *)
DocRefUnchecked(docs, ref) == TRUE
(* fpf_doc.ref TEXT NOT NULL UNIQUE                                         *)
DocRefUnique(docs, ref) == \A d \in docs : d.ref # ref
(* fpf_section UNIQUE(doc_id, ord)                                          *)
SectionOrdUnique(sections, doc_id, ord) ==
    \A x \in sections : ~(x.doc_id = doc_id /\ x.ord = ord)
(* A variant: the constraint without the line number.                       *)
ClauseUniqueByCode(clauses, doc_id, code, line_num) ==
    \A c \in clauses : ~(c.doc_id = doc_id /\ c.code = code)
(* fpf_clause UNIQUE(doc_id, code, line_num)                                *)
ClauseUnique(clauses, doc_id, code, line_num) ==
    \A c \in clauses : ~(c.doc_id = doc_id /\ c.code = code /\ c.line_num = line_num)
(* A variant: the delete without its WHERE clause.                          *)
DeleteEveryDoc(rows, doc_id) == {}
(* DELETE FROM <table> WHERE doc_id = ?                                     *)
DeleteWhereDoc(rows, doc_id) == { r \in rows : r.doc_id # doc_id }
(* SELECT id FROM fpf_doc WHERE ref = ?, in rowid order                     *)
SelectDocIds(docs, ref) == { d.id : d \in { x \in docs : x.ref = ref } }
MinOf(S) == CHOOSE m \in S : \A n \in S : m <= n

(* ordToId.get(ord): undefined for a missing key, which is bound as NULL.   *)
MapGet(m, k) == IF k \in DOMAIN m THEN Some(m[k]) ELSE None
MapSet(m, k, v) == [x \in DOMAIN m \cup {k} |-> IF x = k THEN v ELSE m[x]]
(* A variant: the ordinal itself is bound in place of the persisted id.     *)
TranslateToOrd(m, ordOpt) == ordOpt
(* `x.parent_ord ? ordToId.get(x.parent_ord) : null`                        *)
Translate(m, ordOpt) ==
    IF IsSome(ordOpt) /\ The(ordOpt) # 0 THEN MapGet(m, The(ordOpt)) ELSE None

(***************************************************************************)
(* The content of a document in the store, compared by content and not by  *)
(* persisted id: a section stands for its parent by the parent's ordinal,  *)
(* a clause or xref for its section likewise (-1: the id names no section  *)
(* of the document).  The row counts tell duplicates apart.                *)
(***************************************************************************)
OrdOfId(idOpt, doc_id, sections) ==
    IF idOpt = None THEN None
    ELSE IF \E x \in sections : x.id = The(idOpt) /\ x.doc_id = doc_id
    THEN Some((CHOOSE x \in sections : x.id = The(idOpt)).ord)
    ELSE Some(-1)

ContentOf(ref, docs, sections, clauses, xrefs) ==
    LET ids == SelectDocIds(docs, ref)
        secs == { x \in sections : x.doc_id \in ids }
        cls == { c \in clauses : c.doc_id \in ids }
        xrs == { x \in xrefs : x.doc_id \in ids }
    IN  [docs |-> { [title |-> d.title, version |-> d.version, raw_hash |-> d.raw_hash] :
                      d \in { x \in docs : x.ref = ref } },
         nDocs |-> Cardinality(ids),
         sections |-> { [ref |-> x.ref, title |-> x.title, level |-> x.level,
                         ord |-> x.ord,
                         parent_ord |-> OrdOfId(x.parent_id, x.doc_id, sections),
                         text |-> x.text, line_start |-> x.line_start,
                         line_end |-> x.line_end] : x \in secs },
         nSections |-> Cardinality(secs),
         clauses |-> { [code |-> c.code, text |-> c.text, modality |-> c.modality,
                        lineNum |-> c.line_num,
                        section_ord |-> OrdOfId(c.section_id, c.doc_id, sections)] :
                         c \in cls },
         nClauses |-> Cardinality(cls),
         xrefs |-> { [source_ord |-> OrdOfId(x.source_id, x.doc_id, sections),
                      source_line |-> x.source_line, targetRef |-> x.target_ref,
                      targetType |-> x.target_type, context |-> x.context] :
                       x \in xrs },
         nXrefs |-> Cardinality(xrs)]

Content(ref) == ContentOf(ref, fpf_doc, fpf_section, fpf_clause, fpf_xref)

EmptyContent ==
    [docs |-> {}, nDocs |-> 0, sections |-> {}, nSections |-> 0,
     clauses |-> {}, nClauses |-> 0, xrefs |-> {}, nXrefs |-> 0]

(* The content a parse stands for.                                          *)
Range(f) == { f[k] : k \in DOMAIN f }
Expected(po) ==
    [docs |-> { [title |-> po.doc.title, version |-> po.doc.version,
                 raw_hash |-> po.doc.raw_hash] },
     nDocs |-> 1,
     sections |-> Range(po.sections), nSections |-> Len(po.sections),
     clauses |-> Range(po.clauses), nClauses |-> Len(po.clauses),
     xrefs |-> Range(po.xrefs), nXrefs |-> Len(po.xrefs)]

Store == [fpf_doc |-> fpf_doc, fpf_section |-> fpf_section,
          fpf_clause |-> fpf_clause, fpf_xref |-> fpf_xref]

(***************************************************************************)
(* ingestFpfSpecMarkdown, one action per statement.                        *)
(***************************************************************************)
(* `const parsed = parseFpfSpecMarkdown(md, options)`; the parse of each     *)
(* input is computed once.                                                  *)
StartedInputs ==
    [in \in Inputs |->
       ParseStart(in.md, [doc_ref |-> in.doc_ref, title |-> in.title,
                          version |-> in.version])] @@ << >>
ParsedInputs == [in \in Inputs |-> ParseClose(ParseLoop(StartedInputs[in]))] @@ << >>
Parse(in) == ParsedInputs[in]

(* The first of the three insert loops, from loop n on, that has an         *)
(* element; "done" when none has: the call returns its summary.             *)
LoopFrom(po, n) ==
    IF n <= 1 /\ Len(po.sections) > 0 THEN "insertSection"
    ELSE IF n <= 2 /\ Len(po.clauses) > 0 THEN "insertClause"
    ELSE IF n <= 3 /\ Len(po.xrefs) > 0 THEN "insertXref"
    ELSE "done"

(* A variant: the counts are those of the whole tables.                     *)
SummaryOfTables(p, id) ==
    [doc_id |-> id, sections |-> Cardinality(fpf_section),
     clauses |-> Cardinality(fpf_clause), xrefs |-> Cardinality(fpf_xref)]
(* return { doc_id, sections, clauses, xrefs }                              *)
Summary(p, id) ==
    [doc_id |-> id, sections |-> Len(parsed[p].sections),
     clauses |-> Len(parsed[p].clauses), xrefs |-> Len(parsed[p].xrefs)]

(* The call moves on to statement newpc (element newidx of its loop).  On   *)
(* "done" the promise resolves with the summary; on "failed" it rejects.    *)
(* To be used after the step's store assignments.                           *)
Goto(p, newpc, newidx, id) ==
    /\ pc' = [pc EXCEPT ![p] = newpc]
    /\ idx' = [idx EXCEPT ![p] = newidx]
    /\ result' = [result EXCEPT ![p] = IF newpc = "done" THEN Some(Summary(p, id))
                                       ELSE None]
    /\ committed' =
         IF newpc = "done"
         THEN [committed EXCEPT ![args[p].doc_ref] =
                 Some([md |-> args[p].md,
                       content |-> ContentOf(args[p].doc_ref, fpf_doc', fpf_section',
                                             fpf_clause', fpf_xref')])]
         ELSE committed
    /\ UNCHANGED << parseVars, sideVars, args, parsed, pre, prior, calls, last >>

(* A caller is not in a call: it has made none yet, or its last call has    *)
(* resolved ("done") or rejected ("failed").                                *)
Resting == { "idle", "done", "failed" }

(* The caller invokes ingestFpfSpecMarkdown: the text is parsed.            *)
Call(p, in) ==
    /\ pc[p] \in Resting
    /\ calls < MaxCalls
    /\ pc' = [pc EXCEPT ![p] = "select"]
    /\ args' = [args EXCEPT ![p] = in]
    /\ parsed' = [parsed EXCEPT ![p] = Parse(in)]
    /\ docId' = [docId EXCEPT ![p] = None]
    /\ ordToId' = [ordToId EXCEPT ![p] = << >>]
    /\ idx' = [idx EXCEPT ![p] = 0]
    /\ result' = [result EXCEPT ![p] = None]
    /\ pre' = [pre EXCEPT ![p] = Store]
    /\ prior' = [prior EXCEPT ![p] = committed[in.doc_ref]]
    /\ calls' = calls + 1
    /\ last' = p
    /\ UNCHANGED << parseVars, sideVars, storeVars, committed >>

(* SELECT id FROM fpf_doc WHERE ref = ?                                     *)
SelectDoc(p) ==
    /\ pc[p] = "select"
    /\ LET existing == SelectDocIds(fpf_doc, args[p].doc_ref)
       IN  IF existing # {}
           THEN /\ docId' = [docId EXCEPT ![p] = Some(MinOf(existing))]
                /\ pc' = [pc EXCEPT ![p] = "updateDoc"]
           ELSE /\ docId' = docId
                /\ pc' = [pc EXCEPT ![p] = "insertDoc"]
    /\ UNCHANGED << parseVars, sideVars, storeVars, args, parsed, ordToId, idx, result, histVars >>

(* Variants: an update that leaves the title, and a replacement of the     *)
(* row by a new one (REPLACE INTO) in place of the update.                  *)
UpdateDocRowsKeepTitle(docs, id, doc) ==
    { IF d.id = id
      THEN [d EXCEPT !.version = doc.version, !.raw_hash = doc.raw_hash]
      ELSE d : d \in docs }
UpdateDocRowsReplace(docs, id, doc) ==
    { d \in docs : d.id # id } \cup
    { [id |-> lastId.doc + 1, ref |-> doc.ref, title |-> doc.title,
       version |-> doc.version, raw_hash |-> doc.raw_hash] }
(* UPDATE fpf_doc SET title, version, raw_hash, ingested_at WHERE id = ?;   *)
(* ingested_at is not modelled.                                             *)
UpdateDocRows(docs, id, doc) ==
    { IF d.id = id
      THEN [d EXCEPT !.title = doc.title, !.version = doc.version,
                     !.raw_hash = doc.raw_hash]
      ELSE d : d \in docs }

UpdateDoc(p) ==
    /\ pc[p] = "updateDoc"
    /\ fpf_doc' = UpdateDocRows(fpf_doc, The(docId[p]), parsed[p].doc)
    /\ UNCHANGED << fpf_section, fpf_clause, fpf_xref, lastId, docId, ordToId >>
    /\ Goto(p, "deleteXref", 0, The(docId[p]))

(* A variant: re-ingestion that does not delete the old xrefs.              *)
DeleteXrefsSkipped(p) ==
    /\ pc[p] = "deleteXref"
    /\ UNCHANGED << storeVars, docId, ordToId >>
    /\ Goto(p, "deleteClause", 0, The(docId[p]))
(* DELETE FROM fpf_xref WHERE doc_id = ?                                    *)
DeleteXrefs(p) ==
    /\ pc[p] = "deleteXref"
    /\ fpf_xref' = DeleteWhereDoc(fpf_xref, The(docId[p]))
    /\ UNCHANGED << fpf_doc, fpf_section, fpf_clause, lastId, docId, ordToId >>
    /\ Goto(p, "deleteClause", 0, The(docId[p]))

(* DELETE FROM fpf_clause WHERE doc_id = ?                                  *)
DeleteClauses(p) ==
    /\ pc[p] = "deleteClause"
    /\ fpf_clause' = DeleteWhereDoc(fpf_clause, The(docId[p]))
    /\ UNCHANGED << fpf_doc, fpf_section, fpf_xref, lastId, docId, ordToId >>
    /\ Goto(p, "deleteSection", 0, The(docId[p]))

(* DELETE FROM fpf_section WHERE doc_id = ?                                 *)
DeleteSections(p) ==
    /\ pc[p] = "deleteSection"
    /\ fpf_section' = DeleteWhereDoc(fpf_section, The(docId[p]))
    /\ UNCHANGED << fpf_doc, fpf_clause, fpf_xref, lastId, docId, ordToId >>
    /\ Goto(p, LoopFrom(parsed[p], 1), 1, The(docId[p]))

(* INSERT INTO fpf_doc (ref, title, version, raw_hash)                      *)
InsertDoc(p) ==
    /\ pc[p] = "insertDoc"
    /\ LET doc == parsed[p].doc
           id == lastId.doc + 1
       IN  IF DocRefUnique(fpf_doc, doc.ref)
           THEN /\ fpf_doc' = fpf_doc \cup
                      { [id |-> id, ref |-> doc.ref, title |-> doc.title,
                         version |-> doc.version, raw_hash |-> doc.raw_hash] }
                /\ lastId' = [lastId EXCEPT !.doc = id]
                /\ docId' = [docId EXCEPT ![p] = Some(id)]
                /\ UNCHANGED << fpf_section, fpf_clause, fpf_xref, ordToId >>
                /\ Goto(p, LoopFrom(parsed[p], 1), 1, id)
           ELSE /\ UNCHANGED << storeVars, docId, ordToId >>
                /\ Goto(p, "failed", 0, 0)

(* INSERT INTO fpf_section (...), for element idx of parsed.sections        *)
InsertSection(p) ==
    /\ pc[p] = "insertSection"
    /\ LET section == parsed[p].sections[idx[p]]
           parentId == Translate(ordToId[p], section.parent_ord)
           id == lastId.section + 1
       IN  IF SectionOrdUnique(fpf_section, The(docId[p]), section.ord)
           THEN /\ fpf_section' = fpf_section \cup
                      { [id |-> id, doc_id |-> The(docId[p]), ref |-> section.ref,
                         title |-> section.title, level |-> section.level,
                         ord |-> section.ord, parent_id |-> parentId,
                         text |-> section.text, line_start |-> section.line_start,
                         line_end |-> section.line_end] }
                /\ lastId' = [lastId EXCEPT !.section = id]
                /\ ordToId' = [ordToId EXCEPT ![p] = MapSet(@, section.ord, id)]
                /\ UNCHANGED << fpf_doc, fpf_clause, fpf_xref, docId >>
                /\ IF idx[p] < Len(parsed[p].sections)
                   THEN Goto(p, "insertSection", idx[p] + 1, The(docId[p]))
                   ELSE Goto(p, LoopFrom(parsed[p], 2), 1, The(docId[p]))
           ELSE /\ UNCHANGED << storeVars, docId, ordToId >>
                /\ Goto(p, "failed", 0, 0)

(* INSERT INTO fpf_clause (...), for element idx of parsed.clauses          *)
InsertClause(p) ==
    /\ pc[p] = "insertClause"
    /\ LET clause == parsed[p].clauses[idx[p]]
           sectionId == Translate(ordToId[p], clause.section_ord)
           id == lastId.clause + 1
       IN  IF ClauseUnique(fpf_clause, The(docId[p]), clause.code, clause.lineNum)
           THEN /\ fpf_clause' = fpf_clause \cup
                      { [id |-> id, doc_id |-> The(docId[p]), section_id |-> sectionId,
                         code |-> clause.code, text |-> clause.text,
                         modality |-> clause.modality, line_num |-> clause.lineNum] }
                /\ lastId' = [lastId EXCEPT !.clause = id]
                /\ UNCHANGED << fpf_doc, fpf_section, fpf_xref, docId, ordToId >>
                /\ IF idx[p] < Len(parsed[p].clauses)
                   THEN Goto(p, "insertClause", idx[p] + 1, The(docId[p]))
                   ELSE Goto(p, LoopFrom(parsed[p], 3), 1, The(docId[p]))
           ELSE /\ UNCHANGED << storeVars, docId, ordToId >>
                /\ Goto(p, "failed", 0, 0)

(* INSERT INTO fpf_xref (...), for element idx of parsed.xrefs              *)
InsertXref(p) ==
    /\ pc[p] = "insertXref"
    /\ LET xref == parsed[p].xrefs[idx[p]]
           sourceId == Translate(ordToId[p], xref.source_ord)
           id == lastId.xref + 1
       IN  /\ fpf_xref' = fpf_xref \cup
                 { [id |-> id, doc_id |-> The(docId[p]), source_id |-> sourceId,
                    source_line |-> xref.source_line, target_ref |-> xref.targetRef,
                    target_type |-> xref.targetType, context |-> xref.context] }
           /\ lastId' = [lastId EXCEPT !.xref = id]
           /\ UNCHANGED << fpf_doc, fpf_section, fpf_clause, docId, ordToId >>
           /\ IF idx[p] < Len(parsed[p].xrefs)
              THEN Goto(p, "insertXref", idx[p] + 1, The(docId[p]))
              ELSE Goto(p, "done", 0, The(docId[p]))

(* A statement the call issues fails for a reason of the store's (I/O,      *)
(* lock, disk): the statement changes nothing, query throws, and the call   *)
(* rejects with that error.                                                 *)
Statements ==
    { "select", "updateDoc", "deleteXref", "deleteClause", "deleteSection",
      "insertDoc", "insertSection", "insertClause", "insertXref" }
StatementFails(p) ==
    /\ pc[p] \in Statements
    /\ pc' = [pc EXCEPT ![p] = "failed"]
    /\ UNCHANGED << parseVars, sideVars, storeVars, args, parsed, docId, ordToId, idx, result,
                    histVars >>

Statement(p) ==
    \/ SelectDoc(p) \/ UpdateDoc(p) \/ DeleteXrefs(p) \/ DeleteClauses(p)
    \/ DeleteSections(p) \/ InsertDoc(p) \/ InsertSection(p) \/ InsertClause(p)
    \/ InsertXref(p)

AllResting == \A p \in Procs : pc[p] \in Resting
(* The reference each caller ingests when callers keep to separate          *)
(* documents.                                                               *)
RefOf(p) == IF p = 1 THEN DocRefX ELSE DocRefY

(***************************************************************************)
(* The parser run on its own.                                              *)
(***************************************************************************)
ParseStep ==
    /\ p_result = None
    /\ p_st.i < Len(p_st.lines)
    /\ p_st' = ParseLine(p_st)
    /\ UNCHANGED << p_md, p_options, p_result, ingestVars, sideVars >>

(* A variant: closing the final section without the test for a current     *)
(* section, which fails when there is none.                                 *)
ParseReturnUnguarded ==
    /\ p_result = None
    /\ p_st.i = Len(p_st.lines)
    /\ p_st.currentSection # 0
    /\ p_result' = Some(ParseClose(p_st))
    /\ UNCHANGED << p_md, p_options, p_st, ingestVars, sideVars >>

ParseReturn ==
    /\ p_result = None
    /\ p_st.i = Len(p_st.lines)
    /\ p_result' = Some(ParseClose(p_st))
    /\ UNCHANGED << p_md, p_options, p_st, ingestVars, sideVars >>

(***************************************************************************)
(* Initial states and specifications.                                      *)
(***************************************************************************)
(***************************************************************************)
(* upsertEpistemeCard, one action per statement.  Its inputs: two cards of *)
(* one identity that differ in kind and in every optional field, a card of *)
(* the same context and entity with another content, and a card of         *)
(* another entity.                                                         *)
(***************************************************************************)
Kind1 == <<"k", "1">>
Kind2 == <<"k", "2">>
Context == <<"c">>
Entity1 == <<"e", "1">>
Entity2 == <<"e", "2">>
ContentA == <<"a">>
ContentB == <<"b">>
CardBare(kind, entity, content) ==
    [kind_ref |-> kind, bounded_context_ref |-> Context,
     described_entity_ref |-> entity, content |-> content,
     grounding_holon_ref |-> None, viewpoint_ref |-> None,
     reference_scheme |-> None, meta |-> None,
     formality_level |-> None, assurance_level |-> None]
CardFirst ==
    [CardBare(Kind1, Entity1, ContentA) EXCEPT
       !.viewpoint_ref = Some(<<"v">>),
       !.formality_level = Some(<<"F", "3">>),
       !.assurance_level = Some(<<"L", "1">>)]
CardAgain ==
    [CardBare(Kind2, Entity1, ContentA) EXCEPT
       !.grounding_holon_ref = Some(<<"g">>),
       !.reference_scheme = Some(<<"s">>),
       !.meta = Some(<<"m">>),
       !.formality_level = Some(<<"F", "5">>),
       !.assurance_level = Some(<< >>)]
CardInputs ==
    { CardFirst, CardAgain, CardBare(Kind1, Entity1, ContentB),
      CardBare(Kind1, Entity2, ContentA) }

(* `x || null`: an omitted field and the empty string are bound as NULL.    *)
OrNull(x) == IF IsSome(x) /\ The(x) # << >> THEN x ELSE None
(* `card.meta ? JSON.stringify(card.meta) : null`                           *)
MetaJson(meta) == IF IsSome(meta) THEN Some([json |-> The(meta)]) ELSE None

(* A variant: the table without its unique key.                             *)
CardUnchecked(cards, context, entity, hash) == TRUE
(* fpf_episteme_card UNIQUE(bounded_context_ref, described_entity_ref,      *)
(* content_hash)                                                            *)
CardUnique(cards, context, entity, hash) ==
    \A c \in cards : ~(/\ c.bounded_context_ref = context
                       /\ c.described_entity_ref = entity
                       /\ c.content_hash = hash)
(* A variant: the identity looked up is the context and the entity alone.   *)
SelectCardIdsByEntity(cards, context, entity, hash) ==
    { c.id : c \in { x \in cards : /\ x.bounded_context_ref = context
                                   /\ x.described_entity_ref = entity } }
(* SELECT id FROM fpf_episteme_card WHERE bounded_context_ref = ? AND       *)
(* described_entity_ref = ? AND content_hash = ?                            *)
SelectCardIds(cards, context, entity, hash) ==
    { c.id : c \in { x \in cards : /\ x.bounded_context_ref = context
                                   /\ x.described_entity_ref = entity
                                   /\ x.content_hash = hash } }
(* A variant: each optional column keeps its value when the call binds      *)
(* NULL (SET x = COALESCE(?, x)).                                           *)
Coalesce(new, old) == IF new = None THEN old ELSE new
UpdateCardRowsCoalesce(cards, id, card) ==
    { IF c.id = id
      THEN [c EXCEPT !.kind_ref = card.kind_ref,
                     !.grounding_holon_ref = Coalesce(OrNull(card.grounding_holon_ref), @),
                     !.viewpoint_ref = Coalesce(OrNull(card.viewpoint_ref), @),
                     !.reference_scheme = Coalesce(OrNull(card.reference_scheme), @),
                     !.content = card.content,
                     !.meta_json = Coalesce(MetaJson(card.meta), @),
                     !.formality_level = Coalesce(OrNull(card.formality_level), @),
                     !.assurance_level = Coalesce(OrNull(card.assurance_level), @)]
      ELSE c : c \in cards }
(* UPDATE fpf_episteme_card SET ... WHERE id = ?; updated_at is not         *)
(* modelled.                                                                *)
UpdateCardRows(cards, id, card) ==
    { IF c.id = id
      THEN [c EXCEPT !.kind_ref = card.kind_ref,
                     !.grounding_holon_ref = OrNull(card.grounding_holon_ref),
                     !.viewpoint_ref = OrNull(card.viewpoint_ref),
                     !.reference_scheme = OrNull(card.reference_scheme),
                     !.content = card.content,
                     !.meta_json = MetaJson(card.meta),
                     !.formality_level = OrNull(card.formality_level),
                     !.assurance_level = OrNull(card.assurance_level)]
      ELSE c : c \in cards }
(* The row of INSERT INTO fpf_episteme_card (...) VALUES (...)              *)
NewCardRow(id, card) ==
    [id |-> id,
     kind_ref |-> card.kind_ref,
     bounded_context_ref |-> card.bounded_context_ref,
     described_entity_ref |-> card.described_entity_ref,
     grounding_holon_ref |-> OrNull(card.grounding_holon_ref),
     viewpoint_ref |-> OrNull(card.viewpoint_ref),
     reference_scheme |-> OrNull(card.reference_scheme),
     content |-> card.content,
     content_hash |-> sha256(card.content),
     meta_json |-> MetaJson(card.meta),
     formality_level |-> OrNull(card.formality_level),
     assurance_level |-> OrNull(card.assurance_level)]

notCardVars == << parseVars, ingestVars, indexVars >>
(* What a resolved call upserted: the context, the entity and the content.  *)
Identity(card) ==
    [context |-> card.bounded_context_ref, entity |-> card.described_entity_ref,
     content |-> card.content]

(* The caller invokes upsertEpistemeCard.                                   *)
UpsertCall(p, card) ==
    /\ u_pc[p] \in Resting
    /\ u_calls < MaxCardCalls
    /\ u_pc' = [u_pc EXCEPT ![p] = "select"]
    /\ u_card' = [u_card EXCEPT ![p] = card]
    /\ u_existing' = [u_existing EXCEPT ![p] = None]
    /\ u_result' = [u_result EXCEPT ![p] = None]
    /\ u_pre' = [u_pre EXCEPT ![p] = fpf_episteme_card]
    /\ u_calls' = u_calls + 1
    /\ UNCHANGED << fpf_episteme_card, lastCardId, u_done, notCardVars >>

(* `const existing = await query(SELECT id ...)` and the test of its rows.  *)
UpsertSelect(p) ==
    /\ u_pc[p] = "select"
    /\ LET rows == SelectCardIds(fpf_episteme_card, u_card[p].bounded_context_ref,
                                 u_card[p].described_entity_ref,
                                 sha256(u_card[p].content))
       IN  IF rows # {}
           THEN /\ u_existing' = [u_existing EXCEPT ![p] = Some(MinOf(rows))]
                /\ u_pc' = [u_pc EXCEPT ![p] = "update"]
           ELSE /\ u_existing' = u_existing
                /\ u_pc' = [u_pc EXCEPT ![p] = "insert"]
    /\ UNCHANGED << fpf_episteme_card, lastCardId, u_card, u_result, u_pre, u_calls,
                    u_done, notCardVars >>

(* A variant: the update branch reports the row as created.                 *)
UpsertUpdateCreated(p) ==
    /\ u_pc[p] = "update"
    /\ fpf_episteme_card' =
          UpdateCardRows(fpf_episteme_card, The(u_existing[p]), u_card[p])
    /\ u_pc' = [u_pc EXCEPT ![p] = "done"]
    /\ u_result' = [u_result EXCEPT
                      ![p] = Some([id |-> The(u_existing[p]), created |-> TRUE])]
    /\ u_done' = u_done \cup { Identity(u_card[p]) }
    /\ UNCHANGED << lastCardId, u_card, u_existing, u_pre, u_calls, notCardVars >>

(* The update branch: `return { id, created: false }`.                      *)
UpsertUpdate(p) ==
    /\ u_pc[p] = "update"
    /\ fpf_episteme_card' =
          UpdateCardRows(fpf_episteme_card, The(u_existing[p]), u_card[p])
    /\ u_pc' = [u_pc EXCEPT ![p] = "done"]
    /\ u_result' = [u_result EXCEPT
                      ![p] = Some([id |-> The(u_existing[p]), created |-> FALSE])]
    /\ u_done' = u_done \cup { Identity(u_card[p]) }
    /\ UNCHANGED << lastCardId, u_card, u_existing, u_pre, u_calls, notCardVars >>

(* The insert branch: `return { id: result.lastInsertRowid, created: true   *)
(* }`, or the rejection of the statement, which the function does not       *)
(* catch.                                                                   *)
UpsertInsert(p) ==
    /\ u_pc[p] = "insert"
    /\ IF CardUnique(fpf_episteme_card, u_card[p].bounded_context_ref,
                     u_card[p].described_entity_ref, sha256(u_card[p].content))
       THEN /\ fpf_episteme_card' =
                  fpf_episteme_card \cup { NewCardRow(lastCardId + 1, u_card[p]) }
            /\ lastCardId' = lastCardId + 1
            /\ u_pc' = [u_pc EXCEPT ![p] = "done"]
            /\ u_result' = [u_result EXCEPT
                              ![p] = Some([id |-> lastCardId + 1, created |-> TRUE])]
            /\ u_done' = u_done \cup { Identity(u_card[p]) }
       ELSE /\ UNCHANGED << fpf_episteme_card, lastCardId, u_result, u_done >>
            /\ u_pc' = [u_pc EXCEPT ![p] = "failed"]
    /\ UNCHANGED << u_card, u_existing, u_pre, u_calls, notCardVars >>

UpsertStatement(p) == UpsertSelect(p) \/ UpsertUpdate(p) \/ UpsertInsert(p)
UpsertResting == \A p \in Procs : u_pc[p] \in Resting

CardsIdle ==
    /\ fpf_episteme_card = {}
    /\ lastCardId = 0
    /\ u_pc = [p \in Procs |-> "idle"]
    /\ u_card = [p \in Procs |-> CardFirst]
    /\ u_existing = [p \in Procs |-> None]
    /\ u_result = [p \in Procs |-> None]
    /\ u_pre = [p \in Procs |-> {}]
    /\ u_calls = 0
    /\ u_done = {}
(***************************************************************************)
(* The schema migration and the full-text indexes.                         *)
(***************************************************************************)

(* A statement of a schema text: its text, and what the store does with it. *)
(* kind "table" creates a table, "fts" creates a virtual table USING fts5,  *)
(* "bad" does not parse; guarded is IF NOT EXISTS; reserved marks a virtual  *)
(* table with a column name that fts5 keeps for itself.                     *)
Text(tag, n) == << tag >> \o [k \in 1..n |-> "."]
SchemaStatement(text, kind, name, guarded, reserved) ==
    [text |-> text, kind |-> kind, name |-> name, guarded |-> guarded,
     reserved |-> reserved]

SectionFts == "fpf_section_fts"
ClauseFts == "fpf_clause_fts"
CardFts == "fpf_episteme_card_fts"
FtsTables == { SectionFts, ClauseFts, CardFts }

S_Blank == SchemaStatement(<< >>, "table", "", TRUE, FALSE)
S_Doc == SchemaStatement(Text("D", 8), "table", "fpf_doc", TRUE, FALSE)
S_DocBare == SchemaStatement(Text("d", 8), "table", "fpf_doc", FALSE, FALSE)
S_SectionFts == SchemaStatement(Text("S", 8), "fts", SectionFts, TRUE, FALSE)
S_SectionFtsBare == SchemaStatement(Text("s", 8), "fts", SectionFts, FALSE, FALSE)
S_ClauseFts == SchemaStatement(Text("C", 8), "fts", ClauseFts, TRUE, FALSE)
S_CardFts == SchemaStatement(Text("E", 8), "fts", CardFts, TRUE, FALSE)
S_RankFts == SchemaStatement(Text("R", 8), "fts", "fpf_rank_fts", TRUE, TRUE)
S_Long == SchemaStatement(Text("L", 119), "bad", "", FALSE, FALSE)

(* Schema texts, as the statements between their semicolons once the        *)
(* comments are removed: the shipped schema, one without IF NOT EXISTS, one  *)
(* with a statement that does not parse, one with an fts5 column named rank. *)
ShippedSchema == << S_Doc, S_Blank, S_SectionFts, S_ClauseFts, S_CardFts >>
BareSchema == << S_DocBare, S_SectionFtsBare >>
BrokenSchema == << S_Long, S_Doc, S_ClauseFts >>
RankSchema == << S_Doc, S_RankFts >>
Schemas == { ShippedSchema, BareSchema, BrokenSchema, RankSchema }

(* The messages of the store's errors, as sequences of their parts.         *)
AlreadyExists(name) == << "table ", name, " ", "already exists" >>
NoSuchModule == << "no such module", ": ", "fts5" >>
ReservedColumn == << "reserved ", "fts5", " column name: ", "rank" >>
SyntaxError == << "near ", "\"", "L", "\"", ": syntax error" >>
NoSuchTable(name) == << "no such table", ": ", name >>

(* The error of running a schema statement, None when it succeeds.          *)
StatementError(stmt, master, module) ==
    IF stmt.kind = "bad" THEN Some(SyntaxError)
    ELSE IF stmt.name \in master
         THEN (IF stmt.guarded THEN None ELSE Some(AlreadyExists(stmt.name)))
    ELSE IF stmt.kind = "fts" /\ ~module THEN Some(NoSuchModule)
    ELSE IF stmt.kind = "fts" /\ stmt.reserved THEN Some(ReservedColumn)
    ELSE None

(* `.split(';').map(s => s.trim()).filter(s => s.length > 0)`               *)
RECURSIVE NonEmptyStatements(_)
NonEmptyStatements(schema) ==
    IF schema = << >> THEN << >>
    ELSE IF Len(Head(schema).text) > 0
         THEN << Head(schema) >> \o NonEmptyStatements(Tail(schema))
         ELSE NonEmptyStatements(Tail(schema))

(* `errMsg.includes('already exists')`                                      *)
IsAlreadyExists(errMsg) == includes(errMsg, << "already exists" >>)
(* `errMsg.includes('fts5') || errMsg.includes('no such module')`           *)
IsFtsUnavailable(errMsg) ==
    includes(errMsg, << "fts5" >>) \/ includes(errMsg, << "no such module" >>)

LeadLen == 100
(* `Statement failed: ${stmt.slice(0, 100)}... Error: ${errMsg}`            *)
FailureLine(text, errMsg) ==
    << "Statement failed: " >> \o slice(text, 0, Min(LeadLen, Len(text)))
        \o << "... Error: " >> \o errMsg

(* The catch block of the statement loop: the errors and the flag after     *)
(* a statement that failed with errMsg.                                     *)
ErrorsAfter(errors, text, errMsg) ==
    IF IsAlreadyExists(errMsg) \/ IsFtsUnavailable(errMsg) THEN errors
    ELSE Append(errors, FailureLine(text, errMsg))
FtsEnabledAfter(ftsEnabled, errMsg) ==
    IF IsAlreadyExists(errMsg) THEN ftsEnabled
    ELSE IF IsFtsUnavailable(errMsg) THEN FALSE
    ELSE ftsEnabled

MigrateResult(errors, ftsEnabled) ==
    [success |-> Len(errors) = 0, ftsEnabled |-> ftsEnabled, errors |-> errors]

notMigrateVars == << parseVars, ingestVars, cardVars, fts5, fts_index, rebuildVars >>

(* The caller invokes migrateFpfSchemaV1: the text is cleaned and split;    *)
(* without a statement the function returns at once.                        *)
MigrateCall(schema) ==
    /\ m_pc \in Resting
    /\ m_runs < MaxMigrations
    /\ m_statements' = NonEmptyStatements(schema)
    /\ m_i' = 1
    /\ m_errors' = << >>
    /\ m_ftsEnabled' = TRUE
    /\ m_failures' = << >>
    /\ m_runs' = m_runs + 1
    /\ IF Len(m_statements') = 0
       THEN /\ m_pc' = "done"
            /\ m_result' = Some(MigrateResult(<< >>, TRUE))
            /\ m_done' = Append(m_done, [schema |-> m_statements',
                                          failures |-> << >>,
                                          result |-> The(m_result')])
       ELSE /\ m_pc' = "run"
            /\ m_result' = None
            /\ m_done' = m_done
    /\ UNCHANGED << sqlite_master, notMigrateVars >>

(* One turn of the statement loop: `await query(stmt)` and its catch        *)
(* block; after the last statement the function returns.                    *)
MigrateStatement ==
    /\ m_pc = "run"
    /\ LET stmt == m_statements[m_i]
           err == StatementError(stmt, sqlite_master, fts5)
       IN  /\ sqlite_master' = IF err = None THEN sqlite_master \cup { stmt.name }
                               ELSE sqlite_master
           /\ m_errors' = IF err = None THEN m_errors
                          ELSE ErrorsAfter(m_errors, stmt.text, The(err))
           /\ m_ftsEnabled' = IF err = None THEN m_ftsEnabled
                              ELSE FtsEnabledAfter(m_ftsEnabled, The(err))
           /\ m_failures' = IF err = None THEN m_failures
                            ELSE Append(m_failures, [stmt |-> stmt, message |-> The(err)])
    /\ IF m_i = Len(m_statements)
       THEN /\ m_pc' = "done"
            /\ m_result' = Some(MigrateResult(m_errors', m_ftsEnabled'))
            /\ m_done' = Append(m_done, [schema |-> m_statements,
                                          failures |-> m_failures',
                                          result |-> The(m_result')])
            /\ m_i' = m_i
       ELSE /\ m_i' = m_i + 1
            /\ UNCHANGED << m_pc, m_result, m_done >>
    /\ UNCHANGED << m_statements, m_runs, notMigrateVars >>

(* The content table each index is rebuilt from.                            *)
ContentIds(table) ==
    IF table = SectionFts THEN { r.id : r \in fpf_section }
    ELSE IF table = ClauseFts THEN { r.id : r \in fpf_clause }
    ELSE { r.id : r \in fpf_episteme_card }

(* INSERT INTO t(t) VALUES('rebuild') succeeds when the index table exists  *)
(* and its module is loaded.                                                *)
RebuildError(table, master, module) ==
    IF table \notin master THEN Some(NoSuchTable(table))
    ELSE IF ~module THEN Some(NoSuchModule)
    ELSE None

NoFlags == [sections |-> FALSE, clauses |-> FALSE, cards |-> FALSE]
Flags == { "sections", "clauses", "cards" }
TableOf(flag) ==
    IF flag = "sections" THEN SectionFts
    ELSE IF flag = "clauses" THEN ClauseFts
    ELSE CardFts

notRebuildVars == << parseVars, ingestVars, cardVars, sqlite_master, fts5, migrateVars >>

(* The caller invokes rebuildFTS.                                           *)
RebuildCall ==
    /\ r_pc \in Resting
    /\ r_calls < MaxRebuilds
    /\ r_pc' = "sections"
    /\ r_results' = NoFlags
    /\ r_attempted' = {}
    /\ r_succeeded' = {}
    /\ r_calls' = r_calls + 1
    /\ UNCHANGED << fts_index, r_done, notRebuildVars >>

(* A variant that returns at the first rebuild statement that fails.        *)
AfterTryStopping(flag, err) ==
    IF IsSome(err) \/ flag = "cards" THEN "done"
    ELSE IF flag = "sections" THEN "clauses"
    ELSE "cards"
(* Where the function goes after a try block, whether its statement failed  *)
(* or not: the sections, the clauses, the cards, the return.                *)
AfterTry(flag, err) ==
    IF flag = "sections" THEN "clauses"
    ELSE IF flag = "clauses" THEN "cards"
    ELSE "done"

(* One of the three try blocks: the rebuild statement, the flag when it     *)
(* succeeded, nothing when it failed.                                       *)
RebuildStatement ==
    /\ r_pc \in Flags
    /\ LET err == RebuildError(TableOf(r_pc), sqlite_master, fts5)
       IN  /\ r_results' = IF err = None THEN [r_results EXCEPT ![r_pc] = TRUE]
                           ELSE r_results
           /\ fts_index' = IF err = None
                           THEN [fts_index EXCEPT ![TableOf(r_pc)] =
                                    ContentIds(TableOf(r_pc))]
                           ELSE fts_index
           /\ r_attempted' = r_attempted \cup { r_pc }
           /\ r_succeeded' = IF err = None THEN r_succeeded \cup { r_pc }
                             ELSE r_succeeded
           /\ r_pc' = AfterTry(r_pc, err)
    /\ r_done' = IF r_pc' = "done"
                 THEN Append(r_done, [results |-> r_results', index |-> fts_index',
                                      sections |-> fpf_section, clauses |-> fpf_clause,
                                      cards |-> fpf_episteme_card])
                 ELSE r_done
    /\ UNCHANGED << r_calls, notRebuildVars >>

IndexIdle ==
    /\ fts_index = [t \in FtsTables |-> {}]
    /\ m_pc = "idle"
    /\ m_statements = << >>
    /\ m_i = 1
    /\ m_errors = << >>
    /\ m_ftsEnabled = TRUE
    /\ m_result = None
    /\ m_failures = << >>
    /\ m_runs = 0
    /\ m_done = << >>
    /\ r_pc = "idle"
    /\ r_results = NoFlags
    /\ r_attempted = {}
    /\ r_succeeded = {}
    /\ r_done = << >>
    /\ r_calls = 0
(* The store the tests run on: migrated with the shipped schema, fts5       *)
(* loaded.                                                                  *)
SideIdle ==
    /\ CardsIdle
    /\ IndexIdle
    /\ sqlite_master = { "fpf_doc" } \cup FtsTables
    /\ fts5 = TRUE

NoCall == [doc_ref |-> DocRefX, title |-> << >>, md |-> << >>, version |-> None]
NoParse == [doc |-> << >>, sections |-> << >>, clauses |-> << >>, xrefs |-> << >>]
NoStore == [fpf_doc |-> {}, fpf_section |-> {}, fpf_clause |-> {}, fpf_xref |-> {}]

InitIngest ==
    /\ fpf_doc = {} /\ fpf_section = {} /\ fpf_clause = {} /\ fpf_xref = {}
    /\ lastId = [doc |-> 0, section |-> 0, clause |-> 0, xref |-> 0]
    /\ pc = [p \in Procs |-> "idle"]
    /\ args = [p \in Procs |-> NoCall]
    /\ parsed = [p \in Procs |-> NoParse]
    /\ docId = [p \in Procs |-> None]
    /\ ordToId = [p \in Procs |-> << >>]
    /\ idx = [p \in Procs |-> 0]
    /\ result = [p \in Procs |-> None]
    /\ pre = [p \in Procs |-> NoStore]
    /\ prior = [p \in Procs |-> None]
    /\ committed = [r \in DocRefs |-> None]
    /\ calls = 0
    /\ last = 0

ParserIdle ==
    /\ p_md = << >>
    /\ p_options = [doc_ref |-> DocRefX, title |-> << >>, version |-> None]
    /\ p_st = None
    /\ p_result = None

(* Ingestion calls of any callers, interleaved statement by statement.      *)
Init == ParserIdle /\ InitIngest /\ SideIdle
Next ==
    \E p \in Procs :
        (\E in \in Inputs : calls < MaxInterleaved /\ Call(p, in)) \/ Statement(p)
Spec == Init /\ [][Next]_vars

(* Ingestion calls one after the other.                                     *)
NextSeq ==
    \E p \in Procs : (\E in \in Inputs : AllResting /\ Call(p, in)) \/ Statement(p)
SpecSeq == Init /\ [][NextSeq]_vars

(* Ingestion calls one after the other, against a store whose statements    *)
(* may fail.                                                                *)
NextFail == NextSeq \/ \E p \in Procs : StatementFails(p)
SpecFail == Init /\ [][NextFail]_vars

(* Interleaved ingestion calls of callers that keep to separate documents.  *)
NextPar ==
    \E p \in Procs :
        (\E in \in Inputs : in.doc_ref = RefOf(p) /\ Call(p, in)) \/ Statement(p)
SpecPar == Init /\ [][NextPar]_vars

(* The parser run on its own.                                               *)
InitParse ==
    /\ \E c \in ParseCases :
         /\ p_md = c.md
         /\ p_options = c.options
         /\ p_st = ParseStart(c.md, c.options)
    /\ p_result = None
    /\ InitIngest
    /\ SideIdle
NextParse == ParseStep \/ ParseReturn
SpecParse == InitParse /\ [][NextParse]_vars

(* The parser run on texts of one or two lines, chosen for what the line    *)
(* functions do with them.                                                  *)
InitLines ==
    /\ \E c \in LineCases :
         /\ p_md = c.md
         /\ p_options = c.options
         /\ p_st = ParseStart(c.md, c.options)
    /\ p_result = None
    /\ InitIngest
    /\ SideIdle
SpecLines == InitLines /\ [][NextParse]_vars

(* upsertEpistemeCard calls one after the other.                            *)
NextCardsSeq ==
    \E p \in Procs :
        (\E card \in CardInputs : UpsertResting /\ UpsertCall(p, card))
        \/ UpsertStatement(p)
SpecCardsSeq == Init /\ [][NextCardsSeq]_vars

(* upsertEpistemeCard calls of two callers, interleaved statement by        *)
(* statement.                                                               *)
NextCards ==
    \E p \in Procs :
        (\E card \in CardInputs : UpsertCall(p, card)) \/ UpsertStatement(p)
SpecCards == Init /\ [][NextCards]_vars

(* Migrations of an empty store, one after the other, with and without the  *)
(* fts5 module.                                                             *)
InitMigrate ==
    /\ ParserIdle /\ InitIngest /\ CardsIdle /\ IndexIdle
    /\ sqlite_master = {}
    /\ fts5 \in BOOLEAN
NextMigrate == (\E schema \in Schemas : MigrateCall(schema)) \/ MigrateStatement
SpecMigrate == InitMigrate /\ [][NextMigrate]_vars

(* Ingestion and index rebuilds, one call after the other, on a store that  *)
(* has any of the index tables, with and without the fts5 module.           *)
InitFts ==
    /\ ParserIdle /\ InitIngest /\ CardsIdle /\ IndexIdle
    /\ \E tables \in SUBSET FtsTables : sqlite_master = { "fpf_doc" } \cup tables
    /\ fts5 \in BOOLEAN
NextFts ==
    \/ \E p \in Procs :
          \/ \E in \in Inputs :
                AllResting /\ r_pc \in Resting /\ calls < MaxInterleaved /\ Call(p, in)
          \/ Statement(p)
    \/ AllResting /\ RebuildCall
    \/ RebuildStatement
SpecFts == InitFts /\ [][NextFts]_vars

(***************************************************************************)
(* Properties of ingestion.                                                *)
(***************************************************************************)
DocRows(r) == { d \in fpf_doc : d.ref = r }
InCall(p) == pc[p] \notin Resting
(* The latest call is p's and it has resolved, or rejected.                 *)
Completed(p) == last = p /\ pc[p] = "done"
Rejected(p) == last = p /\ pc[p] = "failed"
(* The content of the call's document as the last completed ingestion of    *)
(* it left it; none for a new document.                                     *)
PriorContent(p) == IF prior[p] = None THEN EmptyContent ELSE The(prior[p]).content
Reingests(p) == prior[p] # None
SameText(p) == Reingests(p) /\ The(prior[p]).md = args[p].md

(* C1: when a statement of a call fails, the store is exactly as it was     *)
(* before the call, and the caller has an error and no summary.             *)
C1_AllOrNothing ==
    \A p \in Procs : Rejected(p) => Store = pre[p] /\ result[p] = None

(* C2: while a call for a document is in progress, the rows of the          *)
(* document that a reader can see are entirely those of the previous        *)
(* completed ingestion (none for a new document) or entirely those of the   *)
(* new parse.                                                               *)
C2_ObserverAtomic ==
    \A p \in Procs :
        InCall(p) =>
            Content(args[p].doc_ref) \in { PriorContent(p), Expected(parsed[p]) }

(* C3: the store holds at most one fpf_doc row per reference, and exactly   *)
(* one for every reference an ingestion of which has completed.             *)
C3_OneDocPerRef ==
    \A r \in DocRefs :
        /\ Cardinality(DocRows(r)) <= 1
        /\ committed[r] # None => Cardinality(DocRows(r)) = 1
(* A re-ingestion has completed and its reference has one row.              *)
C3_Witness ==
    \E p \in Procs :
        /\ Completed(p) /\ Reingests(p)
        /\ Cardinality(DocRows(args[p].doc_ref)) = 1

(* C4: a call that ingests a reference again with the text of the previous  *)
(* completed ingestion leaves one document row and the content the          *)
(* previous ingestion left.                                                 *)
C4_Idempotent ==
    \A p \in Procs :
        Completed(p) /\ SameText(p) =>
            /\ Cardinality(DocRows(args[p].doc_ref)) = 1
            /\ Content(args[p].doc_ref) = The(prior[p]).content
(* The same text, one with cross-references, has been ingested twice.       *)
C4_Witness ==
    \E p \in Procs :
        /\ Completed(p) /\ SameText(p)
        /\ Content(args[p].doc_ref).nXrefs > 0
        /\ Content(args[p].doc_ref).nSections > 0

(* C5: after a call completes, the document row carries the title, version  *)
(* and hash of the call's parse and the section, clause and xref rows of    *)
(* the document are exactly those of that parse, whatever an earlier        *)
(* ingestion had left.                                                      *)
C5_Replaces ==
    \A p \in Procs :
        Completed(p) => Content(args[p].doc_ref) = Expected(parsed[p])
(* "Old" with its text, then "New" with another text, under one reference.  *)
C5_Witness ==
    \E p \in Procs :
        /\ Completed(p) /\ Reingests(p) /\ ~SameText(p)
        /\ args[p].title = TitleNew
        /\ The(prior[p]).content.nClauses > 0
        /\ Content(args[p].doc_ref).nClauses = 0

(* C6: a call for a reference that had a document row when the call         *)
(* started returns that row's id, and the row still has that id and ref.    *)
C6_StableDocId ==
    \A p \in Procs :
        Completed(p) =>
            \A d \in pre[p].fpf_doc :
                d.ref = args[p].doc_ref =>
                    /\ The(result[p]).doc_id = d.id
                    /\ \E e \in fpf_doc : e.id = d.id /\ e.ref = d.ref
(* A third ingestion of a reference has returned the id of the first.       *)
C6_Witness ==
    \E p \in Procs :
        /\ Completed(p) /\ calls = MaxCalls
        /\ \E d \in pre[p].fpf_doc :
              /\ d.ref = args[p].doc_ref
              /\ d.raw_hash # parsed[p].doc.raw_hash
              /\ The(result[p]).doc_id = d.id
        /\ \A d \in fpf_doc : d.ref = args[p].doc_ref

(* C7: two interleaved calls for one reference both complete, and leave     *)
(* the document as one of them run alone leaves it.                         *)
C7_SerializeSafely ==
    /\ \A p \in Procs : pc[p] # "failed"
    /\ AllResting =>
          \A r \in DocRefs :
              committed[r] # None =>
                  Content(r) \in { Expected(ParsedInputs[in]) :
                                     in \in { x \in Inputs : x.doc_ref = r } }

(* The rows of a document: its fpf_doc row and the rows of its doc_id.      *)
RowsOf(r) ==
    [fpf_doc |-> DocRows(r),
     fpf_section |-> { x \in fpf_section : x.doc_id \in SelectDocIds(fpf_doc, r) },
     fpf_clause |-> { x \in fpf_clause : x.doc_id \in SelectDocIds(fpf_doc, r) },
     fpf_xref |-> { x \in fpf_xref : x.doc_id \in SelectDocIds(fpf_doc, r) }]
Other(p) == IF p = 1 THEN 2 ELSE 1
Steps(p) == pc'[p] # pc[p] \/ idx'[p] # idx[p]

(* C8: when the callers keep to different references no call fails, a       *)
(* completed call leaves its document as its parse alone determines, and    *)
(* no step of a call changes a row of the other reference.                  *)
C8_NoInterference ==
    /\ [](\A p \in Procs :
            /\ pc[p] # "failed"
            /\ pc[p] = "done" => Content(RefOf(p)) = Expected(parsed[p]))
    /\ [][\A p \in Procs : Steps(p) => RowsOf(RefOf(Other(p)))' = RowsOf(RefOf(Other(p)))]_vars
(* Both calls have completed and their section inserts were interleaved,    *)
(* one of them a re-ingestion.                                              *)
C8_Witness ==
    /\ pc[1] = "done" /\ pc[2] = "done"
    /\ Reingests(1) \/ Reingests(2)
    /\ \E a \in RowsOf(DocRefX).fpf_section, b \in RowsOf(DocRefY).fpf_section,
          c \in RowsOf(DocRefX).fpf_section : a.id < b.id /\ b.id < c.id

(***************************************************************************)
(* Properties of the parser.                                               *)
(***************************************************************************)
Sections == IF p_result = None THEN << >> ELSE The(p_result).sections

(* C9: in the output of a parse, a section with a parent has a parent       *)
(* section in the output, of a smaller level and a smaller ordinal.         *)
C9_ParentDepth ==
    \A k \in DOMAIN Sections :
        Sections[k].parent_ord # None =>
            \E j \in DOMAIN Sections :
                /\ Sections[j].ord = The(Sections[k].parent_ord)
                /\ Sections[j].level < Sections[k].level
                /\ Sections[j].ord < Sections[k].ord
(* A nested heading, then a heading of the same level as the nested one.    *)
C9_Witness ==
    /\ Len(Sections) = 3
    /\ Sections[2].parent_ord = Some(Sections[1].ord)
    /\ Sections[3].level = Sections[2].level
    /\ Sections[3].parent_ord = Some(Sections[1].ord)

(* C10: in the output of a parse, the section of a later heading line has   *)
(* a larger ordinal, and no two sections have the same ordinal.             *)
C10_OrdinalsIncrease ==
    \A j, k \in DOMAIN Sections :
        /\ Sections[j].line_start < Sections[k].line_start
              => Sections[j].ord < Sections[k].ord
        /\ j # k => Sections[j].ord # Sections[k].ord
(* Three headings, a line that is no heading among them.                    *)
C10_Witness ==
    /\ Len(Sections) = 3
    /\ Sections[3].line_start > Sections[1].line_start + 2
    /\ Sections[3].ord = 3

(* The lines of the parsed text, numbered from 1.                           *)
InputLines == split(p_md)

(* C11: in the output of a parse, a section whose text is set and not       *)
(* empty has its end line set, at or after its start line and not past the  *)
(* last line of the input.                                                  *)
C11_LineSpans ==
    \A k \in DOMAIN Sections :
        (Sections[k].text # None /\ The(Sections[k].text) # << >>) =>
            /\ Sections[k].line_end # None
            /\ Sections[k].line_start <= The(Sections[k].line_end)
            /\ The(Sections[k].line_end) <= Len(InputLines)
(* A section with text closed by a heading, and a last section with text    *)
(* closed by the end of the input.                                          *)
C11_Witness ==
    /\ Len(Sections) = 2
    /\ Sections[1].text # None /\ The(Sections[1].text) # << >>
    /\ Sections[2].text # None /\ The(Sections[2].text) # << >>
    /\ The(Sections[1].line_end) < Sections[2].line_start
    /\ The(Sections[2].line_end) = Len(InputLines)

(* The line of the first heading after section k that is not deeper than   *)
(* it, or one past the last line.                                           *)
RegionEnd(k) ==
    MinOf({ Sections[j].line_start : j \in { j \in DOMAIN Sections :
                /\ Sections[j].line_start > Sections[k].line_start
                /\ Sections[j].level <= Sections[k].level } }
          \cup { Len(InputLines) + 1 })
NotHeading(line) == ~FactsOf(line).heading
(* The lines that are no headings from the heading of section k to the      *)
(* end of its region, nested sections included.                             *)
RegionBody(k) ==
    SelectSeq(SubSeq(InputLines, Sections[k].line_start + 1, RegionEnd(k) - 1),
              NotHeading)

(* C12: in the output of a parse, the text of a section, when set, is the   *)
(* trimmed join of all the lines that are no headings between its heading   *)
(* and the next heading of the same or a shallower level, the lines under   *)
(* deeper nested headings included.                                         *)
C12_FullBody ==
    \A k \in DOMAIN Sections :
        Sections[k].text # None =>
            Sections[k].text = Some(trim(join(RegionBody(k))))

(* C13: once the parse has returned, every section has its text and its     *)
(* end line set, whatever follows its heading.                              *)
C13_Finalized ==
    \A k \in DOMAIN Sections :
        Sections[k].text # None /\ Sections[k].line_end # None

(* A heading line by its shape: one to six "#", white space, and at least   *)
(* one more character.                                                      *)
IsHeadingLine(line) ==
    \E n \in 1..6 :
        /\ Len(line) >= n + 2
        /\ \A j \in 1..n : line[j] = "#"
        /\ line[n + 1] \in Space
HeadingLineNums == { j \in DOMAIN InputLines : IsHeadingLine(InputLines[j]) }
Placeholder(lineNum) == p_options.doc_ref \o << ":", "L" >> \o Decimal(lineNum)
RecoveredRef(line) == FactsOf(line).parsed.ref

(* C14: once the parse has returned there is one section for each heading   *)
(* line of the input and none for any other line; a section whose heading   *)
(* yields no structural id has the reference <doc_ref>:L<line number>, and  *)
(* no section has an empty reference.                                       *)
C14_NoHeadingDropped ==
    p_result # None =>
        /\ Len(Sections) = Cardinality(HeadingLineNums)
        /\ { Sections[k].line_start : k \in DOMAIN Sections } = HeadingLineNums
        /\ \A k \in DOMAIN Sections :
              /\ Sections[k].ref # << >>
              /\ (RecoveredRef(InputLines[Sections[k].line_start]) = None)
                    => Sections[k].ref = Placeholder(Sections[k].line_start)
(* A heading with no structural id on line 3 after a "#" line that is no    *)
(* heading, and headings of levels 2 and 3 with their structural ids.       *)
C14_Witness ==
    /\ Len(Sections) = 3
    /\ Len(InputLines) = 4
    /\ \E j \in DOMAIN InputLines : InputLines[j] = L_NoSpace
    /\ \E k \in DOMAIN Sections :
          Sections[k].ref = p_options.doc_ref \o << ":", "L", "3" >>
    /\ \E k \in DOMAIN Sections : Sections[k].ref = << "A", ".", "1" >>
    /\ \E k \in DOMAIN Sections : Sections[k].level = 3

(* C15: the parse of any text goes on until it returns: until then a step   *)
(* of the line loop or the return is possible.  What it returns holds the   *)
(* document record; for the empty text the sections, clauses and            *)
(* cross-references are empty, and for a text with no heading line there    *)
(* is no section.                                                           *)
C15_NeverFatal ==
    /\ p_result = None => ENABLED NextParse
    /\ p_result # None =>
          /\ The(p_result).doc.ref = p_options.doc_ref
          /\ The(p_result).doc.title = p_options.title
          /\ The(p_result).doc.raw_hash = sha256(p_md)
          /\ p_md = << >> =>
                /\ The(p_result).sections = << >>
                /\ The(p_result).clauses = << >>
                /\ The(p_result).xrefs = << >>
          /\ HeadingLineNums = {} => The(p_result).sections = << >>
(* The empty text has been parsed.                                          *)
C15_Witness ==
    /\ p_md = << >>
    /\ p_result # None
    /\ The(p_result).sections = << >>
    /\ The(p_result).doc.version = None

(***************************************************************************)
(* Properties of clauses.                                                  *)
(***************************************************************************)
ClauseRowsAt(r, code, line_num) ==
    { c \in RowsOf(r).fpf_clause : c.code = code /\ c.line_num = line_num }

(* C16: the clauses of one parse differ in code or in line number; when     *)
(* calls run one after the other no call is rejected, and a completed call  *)
(* leaves one fpf_clause row for each clause of its parse, the rows of a    *)
(* code that stands on two lines differing in line_num.                     *)
C16_ClauseIdentity ==
    \A p \in Procs :
        /\ \A j, k \in DOMAIN parsed[p].clauses :
              j # k => \/ parsed[p].clauses[j].code # parsed[p].clauses[k].code
                       \/ parsed[p].clauses[j].lineNum # parsed[p].clauses[k].lineNum
        /\ ~Rejected(p)
        /\ Completed(p) =>
              /\ Cardinality(RowsOf(args[p].doc_ref).fpf_clause) = Len(parsed[p].clauses)
              /\ \A k \in DOMAIN parsed[p].clauses :
                    Cardinality(ClauseRowsAt(args[p].doc_ref,
                                             parsed[p].clauses[k].code,
                                             parsed[p].clauses[k].lineNum)) = 1
(* A text with one code on two lines has been ingested: two rows of that    *)
(* code, of different line numbers.                                         *)
C16_Witness ==
    \E p \in Procs :
        /\ Completed(p)
        /\ Len(parsed[p].clauses) = 2
        /\ parsed[p].clauses[1].code = parsed[p].clauses[2].code
        /\ \E a, b \in RowsOf(args[p].doc_ref).fpf_clause :
              a.code = b.code /\ a.line_num # b.line_num

Clauses == IF p_result = None THEN << >> ELSE The(p_result).clauses
PlainCode == <<"C", "C", "-", "A", ".", "1", "-", "1">>

(* C17: lines whose clause markers differ only in the dash written in      *)
(* either place (hyphen, non-breaking hyphen, en-dash, em-dash) yield       *)
(* clauses of one and the same code, written with plain hyphens.            *)
C17_DashNormalization ==
    p_result # None =>
        \A j \in DOMAIN InputLines :
            InputLines[j] \in DashLines =>
                \E k \in DOMAIN Clauses :
                    Clauses[k].lineNum = j /\ Clauses[k].code = PlainCode
(* A marker with an en-dash and an em-dash, and one with a non-breaking     *)
(* hyphen and a hyphen, have been parsed to two clauses of the same code.   *)
C17_Witness ==
    /\ InputLines = << DashLine("EN", "EM"), DashLine("NBH", "-") >>
    /\ Len(Clauses) = 2
    /\ Clauses[1].code = Clauses[2].code

(* The keyword stands in the text at position k as a word of its own.       *)
OccursAt(text, kw, k) ==
    /\ k >= 1 /\ k + Len(kw) - 1 <= Len(text)
    /\ SubSeq(text, k, k + Len(kw) - 1) = kw
    /\ ~IsWordAt(text, k - 1)
    /\ ~IsWordAt(text, k + Len(kw))
Contains(text, kw) == \E k \in 1..Len(text) : OccursAt(text, kw, k)
Keywords == { MUST_NOT, MUST, SHALL_NOT, SHALL, SHOULD_NOT, SHOULD, MAY }
Negated == { <<MUST_NOT, MUST>>, <<SHALL_NOT, SHALL>>, <<SHOULD_NOT, SHOULD>> }
(* The keyword stands in the text with no keyword beginning before it.      *)
ComesFirst(text, kw) ==
    \E k \in 1..Len(text) :
        /\ OccursAt(text, kw, k)
        /\ \A other \in Keywords, j \in 1..(k - 1) : ~OccursAt(text, other, j)

(* C18, as stated: a clause whose text contains "MUST NOT" has the          *)
(* modality "MUST NOT", and a clause whose text contains a negated keyword  *)
(* never has the positive keyword it begins with as its modality.           *)
C18_NegationWins ==
    \A k \in DOMAIN Clauses :
        /\ Contains(Clauses[k].text, MUST_NOT) => Clauses[k].modality = Some(MUST_NOT)
        /\ \A n \in Negated :
              Contains(Clauses[k].text, n[1]) => Clauses[k].modality # Some(n[2])
(* C18, amended: a clause in whose text a negated keyword stands with no    *)
(* keyword beginning before it has that negated keyword as its modality,    *)
(* never the positive keyword it begins with.                               *)
C18_NegationWinsWhenFirst ==
    \A k \in DOMAIN Clauses :
        \A n \in Negated :
            ComesFirst(Clauses[k].text, n[1]) => Clauses[k].modality = Some(n[1])
(* A clause whose text ends with "SHALL NOT", nothing before it being a     *)
(* keyword, has been extracted.                                             *)
C18_Witness ==
    /\ Len(Clauses) = 1
    /\ Clauses[1].text = <<"x", " ">> \o SHALL_NOT
    /\ ComesFirst(Clauses[1].text, SHALL_NOT)
    /\ Clauses[1].modality = Some(SHALL_NOT)

(* CC-<upper-case letter><upper-case letters, digits, dots>-<digits>        *)
IsNormalizedCode(code) ==
    /\ Len(code) >= 6
    /\ SubSeq(code, 1, 3) = <<"C", "C", "-">>
    /\ code[4] \in UpperAZ
    /\ \E d \in 5..(Len(code) - 1) :
          /\ code[d] = "-"
          /\ \A j \in 5..(d - 1) : code[j] \in CodeChars
          /\ \A j \in (d + 1)..Len(code) : code[j] \in Digit

(* C19: every clause of a parse has a code of the normalized upper-case     *)
(* shape, whatever the letter case of the marker in the line.               *)
C19_UppercaseCode ==
    \A k \in DOMAIN Clauses : IsNormalizedCode(Clauses[k].code)

(***************************************************************************)
(* Properties of cross-references.                                         *)
(***************************************************************************)
Xrefs == IF p_result = None THEN << >> ELSE The(p_result).xrefs
XrefsOfLine(j) == { Xrefs[k] : k \in { k \in DOMAIN Xrefs : Xrefs[k].source_line = j } }
HasKeyword(line) == \E kw \in RelationKeywords : includes(line, kw)
(* A capital letter that begins a word, a "." and a digit.                  *)
HasIdShape(line) ==
    \E k \in 1..(Len(line) - 2) :
        /\ line[k] \in UpperAZ /\ ~IsWordAt(line, k - 1)
        /\ line[k + 1] = "." /\ line[k + 2] \in Digit
(* The line mentions Part B, or section B.2 and no longer id.               *)
PartB == <<"P", "a", "r", "t", " ", "B">>
IdB2 == <<"B", ".", "2">>
MentionsPartB(line) == Contains(line, PartB)
MentionsB2(line) ==
    \E k \in 1..Len(line) :
        /\ OccursAt(line, IdB2, k)
        /\ ~(k + 4 <= Len(line) /\ line[k + 3] \in {".", ":"} /\ line[k + 4] \in Digit)
YieldsXref(j, ref) ==
    \E x \in XrefsOfLine(j) : x.targetRef = ref /\ x.targetType = "section"
ContentLineNums == DOMAIN InputLines \ HeadingLineNums

(* C20: a line that is no heading and has neither a relation keyword nor    *)
(* the shape of a structural id yields no cross-reference; a line with a    *)
(* relation keyword that mentions a part or a section yields the            *)
(* cross-reference to it.                                                   *)
C20_XrefGate ==
    p_result # None =>
        \A j \in ContentLineNums :
            /\ ~(HasKeyword(InputLines[j]) \/ HasIdShape(InputLines[j]))
                  => XrefsOfLine(j) = {}
            /\ HasKeyword(InputLines[j]) /\ MentionsPartB(InputLines[j])
                  => YieldsXref(j, <<"P", "a", "r", "t", "-", "B">>)
            /\ HasKeyword(InputLines[j]) /\ MentionsB2(InputLines[j])
                  => YieldsXref(j, IdB2)

(***************************************************************************)
(* Properties of the ingestion summary and of the persisted ids.           *)
(***************************************************************************)
RowsWithDocId(rows, id) == { x \in rows : x.doc_id = id }

(* C25: when calls run one after the other, a completed call returns a      *)
(* summary whose section, clause and xref counts are the lengths of the     *)
(* three parsed collections and the numbers of fpf_section, fpf_clause and  *)
(* fpf_xref rows stored for the returned doc_id.                            *)
C25_SummaryCounts ==
    \A p \in Procs :
        Completed(p) =>
            /\ result[p] # None
            /\ The(result[p]).sections = Len(parsed[p].sections)
            /\ The(result[p]).clauses = Len(parsed[p].clauses)
            /\ The(result[p]).xrefs = Len(parsed[p].xrefs)
            /\ The(result[p]).sections =
                  Cardinality(RowsWithDocId(fpf_section, The(result[p]).doc_id))
            /\ The(result[p]).clauses =
                  Cardinality(RowsWithDocId(fpf_clause, The(result[p]).doc_id))
            /\ The(result[p]).xrefs =
                  Cardinality(RowsWithDocId(fpf_xref, The(result[p]).doc_id))
(* A call for a text with two sections and two clauses has completed while  *)
(* the store holds another document with its own rows.                      *)
C25_Witness ==
    \E p \in Procs :
        /\ Completed(p)
        /\ The(result[p]).sections = 2 /\ The(result[p]).clauses = 2
        /\ The(result[p]).xrefs = 0
        /\ Cardinality(fpf_doc) = 2
        /\ Cardinality(fpf_section) = 3
        /\ Cardinality(fpf_xref) = 1

(* The sections before section k, in document order, of a smaller level.    *)
Shallower(k) == { j \in 1..(k - 1) : Sections[j].level < Sections[k].level }
Latest(S) == CHOOSE m \in S : \A n \in S : n <= m

(* C26: in the output of a parse, the parent of a section is the latest     *)
(* section before it whose level is smaller than its own, and a section     *)
(* has no parent exactly when no section before it has a smaller level.     *)
C26_NearestShallower ==
    \A k \in DOMAIN Sections :
        IF Shallower(k) = {}
        THEN Sections[k].parent_ord = None
        ELSE Sections[k].parent_ord = Some(Sections[Latest(Shallower(k))].ord)
(* Headings of levels 2, 3, 1, 2: the last one has the third for its        *)
(* parent, not the first, and the third has none.                           *)
C26_Witness ==
    /\ Len(Sections) = 4
    /\ Sections[1].level = 2 /\ Sections[2].level = 3
    /\ Sections[3].level = 1 /\ Sections[4].level = 2
    /\ Sections[2].parent_ord = Some(Sections[1].ord)
    /\ Sections[3].parent_ord = None
    /\ Sections[4].parent_ord = Some(Sections[3].ord)

(* The call of p has reached its insert loops, or has resolved.             *)
Inserting(p) ==
    last = p /\ pc[p] \in { "insertSection", "insertClause", "insertXref", "done" }
SectionRowsOf(p) == RowsWithDocId(fpf_section, The(docId[p]))
EarlierSectionIds(p) == { x.id : x \in pre[p].fpf_section }
(* The id is that of the row this call inserted for the section of the      *)
(* ordinal; none when the ordinal is none.                                  *)
IsIdOfOrd(p, idOpt, ordOpt) ==
    IF ordOpt = None THEN idOpt = None
    ELSE \E y \in SectionRowsOf(p) :
            /\ y.ord = The(ordOpt)
            /\ idOpt = Some(y.id)
            /\ y.id \notin EarlierSectionIds(p)

(* C27: when calls run one after the other, the section rows of a call are  *)
(* inserted in the order of their ordinals; a section with a parent         *)
(* ordinal has as parent_id the id this call gave, earlier, to the section  *)
(* of that ordinal, and every clause and xref with a section ordinal has    *)
(* the id this call gave to that section.                                   *)
C27_ParentsFirst ==
    \A p \in Procs :
        Inserting(p) =>
            /\ \A x, y \in SectionRowsOf(p) : x.ord < y.ord => x.id < y.id
            /\ \A x \in SectionRowsOf(p) :
                  \E k \in DOMAIN parsed[p].sections :
                      /\ parsed[p].sections[k].ord = x.ord
                      /\ IsIdOfOrd(p, x.parent_id, parsed[p].sections[k].parent_ord)
                      /\ x.parent_id # None => The(x.parent_id) < x.id
            /\ \A c \in RowsWithDocId(fpf_clause, The(docId[p])) :
                  \E k \in DOMAIN parsed[p].clauses :
                      /\ parsed[p].clauses[k].code = c.code
                      /\ parsed[p].clauses[k].lineNum = c.line_num
                      /\ IsIdOfOrd(p, c.section_id, parsed[p].clauses[k].section_ord)
            /\ \A x \in RowsWithDocId(fpf_xref, The(docId[p])) :
                  \E k \in DOMAIN parsed[p].xrefs :
                      /\ parsed[p].xrefs[k].source_line = x.source_line
                      /\ parsed[p].xrefs[k].targetRef = x.target_ref
                      /\ IsIdOfOrd(p, x.source_id, parsed[p].xrefs[k].source_ord)
(* A document is ingested again: its nested section has the new id of its   *)
(* parent, which is not the id of the parent's ordinal nor an id of the     *)
(* earlier ingestion, and its clauses have the id of the nested section.    *)
C27_Witness ==
    \E p \in Procs :
        /\ Completed(p) /\ Reingests(p)
        /\ \E x, y \in SectionRowsOf(p) :
              /\ x.parent_id = Some(y.id) /\ y.id # y.ord
              /\ y.id \notin EarlierSectionIds(p)
              /\ EarlierSectionIds(p) # {}
              /\ \E c \in RowsWithDocId(fpf_clause, The(docId[p])) :
                    c.section_id = Some(x.id)

(* The ordinal of the section opened by the latest heading line before      *)
(* line j; none when no heading line is before it.                          *)
HeadingsBefore(j) == { h \in HeadingLineNums : h < j }
SectionAt(h) == CHOOSE k \in DOMAIN Sections : Sections[k].line_start = h
TagAt(j) ==
    IF HeadingsBefore(j) = {} THEN None
    ELSE Some(Sections[SectionAt(Latest(HeadingsBefore(j)))].ord)

(* C28: in the output of a parse, every clause and every cross-reference    *)
(* comes from a line that is no heading and carries the ordinal of the      *)
(* section opened by the latest heading line before its line, and none      *)
(* exactly when no heading line is before it.                               *)
C28_SectionTagging ==
    p_result # None =>
        /\ \A k \in DOMAIN Clauses :
              /\ Clauses[k].lineNum \in ContentLineNums
              /\ Clauses[k].section_ord = TagAt(Clauses[k].lineNum)
        /\ \A k \in DOMAIN Xrefs :
              /\ Xrefs[k].source_line \in ContentLineNums
              /\ Xrefs[k].source_ord = TagAt(Xrefs[k].source_line)
(* A clause, with its cross-references, before any heading, and a           *)
(* cross-reference under a nested heading whose text has the shape of a     *)
(* structural id.                                                           *)
C28_Witness ==
    /\ InputLines = << L_Clause, L_H2, L_H3, L_Xref >>
    /\ Len(Clauses) = 1 /\ Clauses[1].section_ord = None
    /\ \E k \in DOMAIN Xrefs : Xrefs[k].source_line = 1 /\ Xrefs[k].source_ord = None
    /\ \E k \in DOMAIN Xrefs : Xrefs[k].source_line = 4 /\ Xrefs[k].source_ord = Some(2)

(***************************************************************************)
(* Properties of upsertEpistemeCard.                                       *)
(***************************************************************************)
CardsOf(cards, context, entity) ==
    { c \in cards : c.bounded_context_ref = context /\ c.described_entity_ref = entity }
ContentsUpserted(context, entity) ==
    { t.content : t \in { x \in u_done : x.context = context /\ x.entity = entity } }
Entities == { Entity1, Entity2 }

(* C21: when calls run one after the other, no two card rows have the same  *)
(* context, entity and content hash, and the rows of a context and entity   *)
(* are as many as the distinct contents upserted for them, one row for      *)
(* each content.                                                            *)
C21_CardIdentity ==
    /\ \A a, b \in fpf_episteme_card :
          (/\ a.bounded_context_ref = b.bounded_context_ref
           /\ a.described_entity_ref = b.described_entity_ref
           /\ a.content_hash = b.content_hash) => a = b
    /\ \A e \in Entities :
          /\ Cardinality(CardsOf(fpf_episteme_card, Context, e)) =
                Cardinality(ContentsUpserted(Context, e))
          /\ { c.content : c \in CardsOf(fpf_episteme_card, Context, e) } =
                ContentsUpserted(Context, e)
(* Content a was upserted twice and content b once for one entity: two      *)
(* rows.                                                                    *)
C21_Witness ==
    /\ u_calls = 3
    /\ UpsertResting
    /\ \A p \in Procs : u_pc[p] # "failed"
    /\ ContentsUpserted(Context, Entity1) = { ContentA, ContentB }
    /\ Cardinality(fpf_episteme_card) = 2

(* The rows of the identity of a card: its context, its entity and the      *)
(* hash of its content.                                                     *)
WithIdentity(cards, card) ==
    { c \in cards : /\ c.bounded_context_ref = card.bounded_context_ref
                    /\ c.described_entity_ref = card.described_entity_ref
                    /\ c.content_hash = sha256(card.content) }
Resolved(p) == u_pc[p] = "done"

(* C22: when calls run one after the other, a resolved call reports         *)
(* created = true exactly when the store held no row of its card's          *)
(* identity at the call, and then returns the id of a row of that identity  *)
(* that the store did not hold; otherwise it reports created = false and    *)
(* returns the id of the row the store held.                                *)
C22_CreatedFlag ==
    \A p \in Procs :
        Resolved(p) =>
            /\ u_result[p] # None
            /\ The(u_result[p]).created = (WithIdentity(u_pre[p], u_card[p]) = {})
            /\ \E c \in WithIdentity(fpf_episteme_card, u_card[p]) :
                  c.id = The(u_result[p]).id
            /\ IF The(u_result[p]).created
               THEN \A c \in u_pre[p] : c.id # The(u_result[p]).id
               ELSE \E c \in WithIdentity(u_pre[p], u_card[p]) :
                       c.id = The(u_result[p]).id
(* One caller has created a card and the other has then upserted the same   *)
(* identity.                                                                *)
C22_Witness ==
    \E p, q \in Procs :
        /\ Resolved(p) /\ Resolved(q)
        /\ The(u_result[p]).created /\ ~The(u_result[q]).created
        /\ The(u_result[p]).id = The(u_result[q]).id
        /\ u_card[p] # u_card[q]

(* The step is the UPDATE of caller p's call.                               *)
Updates(p) == u_pc[p] = "update" /\ u_pc'[p] = "done"
RowBefore(p) == CHOOSE c \in fpf_episteme_card : c.id = The(u_existing[p])
RowAfter(p) == CHOOSE c \in fpf_episteme_card' : c.id = The(u_existing[p])
KeepsIdentity(p) ==
    /\ \E c \in fpf_episteme_card : c.id = The(u_existing[p])
    /\ \E c \in fpf_episteme_card' : c.id = The(u_existing[p])
    /\ Cardinality(fpf_episteme_card') = Cardinality(fpf_episteme_card)
    /\ RowAfter(p).bounded_context_ref = RowBefore(p).bounded_context_ref
    /\ RowAfter(p).described_entity_ref = RowBefore(p).described_entity_ref
    /\ RowAfter(p).content_hash = RowBefore(p).content_hash
    /\ RowAfter(p).kind_ref = u_card[p].kind_ref
    /\ RowAfter(p).meta_json = MetaJson(u_card[p].meta)
(* A field the call gives with no characters.                               *)
GivenEmpty(x) == x = Some(<< >>)

(* C29, as stated: the update leaves the row's id, context, entity and      *)
(* content hash, and overwrites the kind and every optional field with the  *)
(* value of the call, null for a field the call omits.                      *)
C29_UpdateOverwrites ==
    [][\A p \in Procs :
          Updates(p) =>
              /\ KeepsIdentity(p)
              /\ RowAfter(p).grounding_holon_ref = u_card[p].grounding_holon_ref
              /\ RowAfter(p).viewpoint_ref = u_card[p].viewpoint_ref
              /\ RowAfter(p).reference_scheme = u_card[p].reference_scheme
              /\ RowAfter(p).formality_level = u_card[p].formality_level
              /\ RowAfter(p).assurance_level = u_card[p].assurance_level]_vars
(* The value of the call, null for a field omitted or given empty.          *)
Overwritten(x) == IF x = None \/ GivenEmpty(x) THEN None ELSE x
(* C29, amended: the update leaves the row's id, context, entity and        *)
(* content hash, and overwrites the kind and every optional field with the  *)
(* value of the call, null for a field the call omits or gives as the       *)
(* empty string; no value stored by an earlier call is kept.                *)
C29_UpdateOverwritesNonEmpty ==
    [][\A p \in Procs :
          Updates(p) =>
              /\ KeepsIdentity(p)
              /\ RowAfter(p).grounding_holon_ref = Overwritten(u_card[p].grounding_holon_ref)
              /\ RowAfter(p).viewpoint_ref = Overwritten(u_card[p].viewpoint_ref)
              /\ RowAfter(p).reference_scheme = Overwritten(u_card[p].reference_scheme)
              /\ RowAfter(p).formality_level = Overwritten(u_card[p].formality_level)
              /\ RowAfter(p).assurance_level = Overwritten(u_card[p].assurance_level)]_vars
(* A card stored with a viewpoint and an assurance level has been updated   *)
(* by a call that omits the viewpoint, gives the assurance level empty and  *)
(* gives a grounding holon: the row has the holon and neither of the two.   *)
C29_Witness ==
    \E p \in Procs :
        /\ Resolved(p) /\ ~The(u_result[p]).created
        /\ u_card[p] = CardAgain
        /\ \E c \in u_pre[p] :
              /\ c.id = The(u_result[p]).id
              /\ c.viewpoint_ref # None /\ c.assurance_level # None
              /\ c.grounding_holon_ref = None
        /\ \E c \in fpf_episteme_card :
              /\ c.id = The(u_result[p]).id
              /\ c.viewpoint_ref = None /\ c.assurance_level = None
              /\ c.grounding_holon_ref = Some(<<"g">>)
              /\ c.kind_ref = Kind2

SameIdentity(p, q) == Identity(u_card[p]) = Identity(u_card[q])
(* The step is the INSERT of caller p's call, the store holding a row of    *)
(* the card's identity: another call has written since p read.              *)
InsertsLate(p) ==
    /\ u_pc[p] = "insert" /\ u_pc'[p] # "insert"
    /\ WithIdentity(fpf_episteme_card, u_card[p]) # {}

(* C30: however two calls for one identity interleave, the store never      *)
(* holds two rows of one identity and the two calls do not both report      *)
(* created = true; a call that read before the other wrote has its insert   *)
(* rejected: it ends with the error and no result, and the store is as it   *)
(* was.                                                                     *)
C30_ConcurrentUpsert ==
    /\ [](/\ \A a, b \in fpf_episteme_card :
               (/\ a.bounded_context_ref = b.bounded_context_ref
                /\ a.described_entity_ref = b.described_entity_ref
                /\ a.content_hash = b.content_hash) => a = b
          /\ \A p, q \in Procs :
               (p # q /\ Resolved(p) /\ Resolved(q) /\ SameIdentity(p, q))
                 => ~(The(u_result[p]).created /\ The(u_result[q]).created))
    /\ [][\A p \in Procs :
             InsertsLate(p) =>
                 /\ u_pc'[p] = "failed"
                 /\ u_result'[p] = None
                 /\ fpf_episteme_card' = fpf_episteme_card]_vars

(* Both callers read before either wrote: one has created the row, the      *)
(* other's insert was rejected, and the store holds one row.                *)
C30_Witness ==
    \E p, q \in Procs :
        /\ p # q /\ SameIdentity(p, q)
        /\ u_pre[p] = {} /\ u_pre[q] = {}
        /\ Resolved(p) /\ The(u_result[p]).created
        /\ u_pc[q] = "failed" /\ u_result[q] = None
        /\ u_existing[q] = None
        /\ Cardinality(fpf_episteme_card) = 1

(* The failures of a finished migration, by what they report.               *)
ReportsAlreadyExists(f) == f.message = AlreadyExists(f.stmt.name)
ReportsModuleUnavailable(f) == f.message = NoSuchModule
OtherFailure(f) == ~ReportsAlreadyExists(f) /\ ~ReportsModuleUnavailable(f)
Lead(stmt) == SubSeq(stmt.text, 1, Min(LeadLen, Len(stmt.text)))
RECURSIVE OtherFailures(_)
OtherFailures(failures) ==
    IF failures = << >> THEN << >>
    ELSE IF OtherFailure(Head(failures))
         THEN << Head(failures) >> \o OtherFailures(Tail(failures))
         ELSE OtherFailures(Tail(failures))
Surfaces(line, f) == includes(line, Lead(f.stmt)) /\ includes(line, f.message)
MigratedRun(run) ==
    LET others == OtherFailures(run.failures)
    IN  /\ Len(run.result.errors) = Len(others)
        /\ \A k \in 1..Len(others) : Surfaces(run.result.errors[k], others[k])
        /\ run.result.success = (Len(others) = 0)
        /\ run.result.ftsEnabled =
              ~(\E k \in 1..Len(run.failures) : ReportsModuleUnavailable(run.failures[k]))

(* C23: a finished migration has swallowed the failures that report an      *)
(* existing object, has swallowed the failures that report the missing      *)
(* search-index module and shows them only as ftsEnabled = false, lists     *)
(* every other failure with the lead text of its statement and its message, *)
(* and has success true exactly when there is no failure of that third      *)
(* kind; a migration run again on a store it migrated succeeds.             *)
C23_MigrationErrors ==
    /\ \A k \in 1..Len(m_done) : MigratedRun(m_done[k])
    /\ \A j, k \in 1..Len(m_done) :
          (j < k /\ m_done[j].schema = m_done[k].schema /\ m_done[j].result.success)
             => m_done[k].result.success

IngestStep == << storeVars, callVars >>' # << storeVars, callVars >>
Rebuilt ==
    r_pc = "done" =>
        /\ r_attempted = Flags
        /\ \A flag \in Flags :
              /\ r_results[flag] = (flag \in r_succeeded)
              /\ (flag \in r_succeeded) =
                    (TableOf(flag) \in sqlite_master /\ fts5)
SameStore(a, b) ==
    a.sections = b.sections /\ a.clauses = b.clauses /\ a.cards = b.cards
Repeated ==
    \A j, k \in 1..Len(r_done) :
        SameStore(r_done[j], r_done[k]) =>
            r_done[j].results = r_done[k].results /\ r_done[j].index = r_done[k].index

(* C24: the full-text indexes stand beside the store. A step of ingestion   *)
(* leaves the index tables and the rebuild alone, and no ingestion call     *)
(* fails, whichever index tables the store has; rebuildFTS never raises,    *)
(* attempts all three rebuilds even after one that failed, sets each of the *)
(* flags sections, clauses, cards true exactly when its rebuild statement   *)
(* succeeded, and gives the same result when it is repeated on a store that *)
(* has not changed.                                                         *)
C24_IndexSidecar ==
    /\ [](/\ \A p \in Procs : pc[p] # "failed"
          /\ r_pc # "failed"
          /\ Rebuilt
          /\ Repeated)
    /\ [][IngestStep => UNCHANGED indexVars]_vars
C24_Witness ==
    /\ r_pc = "done"
    /\ Len(r_done) = 2
    /\ SameStore(r_done[1], r_done[2])
    /\ fpf_section # {}
    /\ ~r_results.sections
    /\ r_results.clauses
    /\ fts_index[ClauseFts] # {}

====
